---- MODULE Spec2Model ----
(***************************************************************************)
(* Athanor EPUB converter: the image sanitization engine (fan-out, per     *)
(* file pipeline, bounded decode, DPI patching) and the EPUB container     *)
(* operations (unzipStreaming, zipEPUBStrict) of Athanor-Wails/app.go.     *)
(*                                                                         *)
(* A byte is an integer 0..255, a byte string a sequence of bytes.         *)
(* A file of the unpacked tree is a record of what the pipeline reads from *)
(* it: its extension, its first bytes, its EXIF orientation, the header    *)
(* dimensions, whether the pixel decode succeeds, the pixel buffer type,   *)
(* and which I/O step (if any) fails while it is replaced.                 *)
(***************************************************************************)
EXTENDS Integers, Sequences, FiniteSets, TLC

\* ------------------------------------------------------------ constants
MaxImageDimension == 50000
MaxPixelCount == 500000000
MaxLogLines == 10000
TargetDPI == 96
MaxImageLongSide == 2500
\* sanitizeAllImages: the cap on the worker count, and the progress period.
MaxWorkers == 8
ProgressEvery == 50
\* tryFastPath / injectJFIFDPI: the least length that is patched.
MinJPEGLen == 20
\* injectPNGpHYs: the least length that is walked (signature + IHDR).
MinPNGLen == 33

\* ------------------------------------------------------------ bounds
\* Entries of the walked tree, and CPUs of the host (runtime.NumCPU()).
MaxFiles == 2
MaxCPU == 2

\* Entries of the archive unzipStreaming reads.
MaxEntries == 3

\* Pieces of the byte stream injectJFIFDPI is given.
MaxBlocks == 4

\* Chunks of the PNG stream injectPNGpHYs is given.
MaxChunks == 3

\* ------------------------------------------------------------ helpers
Min(a, b) == IF a < b THEN a ELSE b

\* s[from+1 .. to] in Go's half-open, zero-based slice notation s[from:to].
Slice(s, from, to) == SubSeq(s, from + 1, to)

\* s[i] in Go's zero-based indexing.
At(s, i) == s[i + 1]

\* The bytes of an ASCII string literal used by the code.
B_JFIF0 == <<74, 70, 73, 70, 0>>

B_PNG == <<80, 78, 71>>

B_GIF87a == <<71, 73, 70, 56, 55, 97>>

B_GIF89a == <<71, 73, 70, 56, 57, 97>>

B_RIFF == <<82, 73, 70, 70>>

B_WEBP == <<87, 69, 66, 80>>

B_IHDR == <<73, 72, 68, 82>>

B_pHYs == <<112, 72, 89, 115>>

B_IDAT == <<73, 68, 65, 84>>

B_IEND == <<73, 69, 78, 68>>

\* strings.ToLower on the extensions the model uses.
ToLowerExt(ext) ==
    CASE ext = ".JPG" -> ".jpg"
      [] ext = ".JPEG" -> ".jpeg"
      [] ext = ".PNG" -> ".png"
      [] OTHER -> ext

isImageExt(ext) ==
    ToLowerExt(ext) \in {".jpg", ".jpeg", ".png", ".gif", ".bmp", ".tiff", ".tif", ".webp"}

extToFormat(ext) ==
    LET e == ToLowerExt(ext) IN
    CASE e \in {".jpg", ".jpeg"} -> "jpeg"
      [] e = ".png" -> "png"
      [] e = ".gif" -> "gif"
      [] e = ".bmp" -> "bmp"
      [] e \in {".tif", ".tiff"} -> "tiff"
      [] e = ".webp" -> "webp"
      [] OTHER -> ""

\* ------------------------------------------------------------ sniffFormat
\* head: the bytes io.ReadFull put into the 12-byte buffer (n = Len(head)).
\* Returns [err, format]; err = "" stands for nil.
sniffFormat(head) ==
    LET n == Len(head) IN
    IF n < 2 THEN [err |-> "too_small", format |-> ""]
    ELSE IF n >= 3 /\ At(head, 0) = 255 /\ At(head, 1) = 216 /\ At(head, 2) = 255
        THEN [err |-> "", format |-> "jpeg"]
    ELSE IF n >= 8 /\ At(head, 0) = 137 /\ Slice(head, 1, 4) = B_PNG
        THEN [err |-> "", format |-> "png"]
    ELSE IF n >= 6 /\ (Slice(head, 0, 6) = B_GIF87a \/ Slice(head, 0, 6) = B_GIF89a)
        THEN [err |-> "", format |-> "gif"]
    ELSE IF n >= 12 /\ Slice(head, 0, 4) = B_RIFF /\ Slice(head, 8, 12) = B_WEBP
        THEN [err |-> "", format |-> "webp"]
    ELSE IF n >= 2 /\ At(head, 0) = 66 /\ At(head, 1) = 77
        THEN [err |-> "", format |-> "bmp"]
    ELSE IF n >= 4 /\ (Slice(head, 0, 4) = <<73, 73, 42, 0>>
                       \/ Slice(head, 0, 4) = <<77, 77, 0, 42>>)
        THEN [err |-> "", format |-> "tiff"]
    ELSE [err |-> "unknown_format", format |-> ""]

\* Lines 603-604: io.ReadFull fills the 12-byte buffer with as many bytes as
\* the file has.
readHead(data) == Slice(data, 0, Min(12, Len(data)))

\* sniffFormat(path) for a file holding data: lines 597-600, then the switch.
sniffFile(data, canOpen) ==
    IF ~canOpen THEN [err |-> "open", format |-> ""] ELSE sniffFormat(readHead(data))

\* ------------------------------------------------------------ decodeSafe
\* int64(w)*int64(h) > limit for w, h > 0. The code's product is exact in 64
\* bits (w, h <= 50000 here); the comparison is stated by division so that it
\* is exact in the model too: w*h > limit  <=>  w > limit \div h.
\* The same comparison with the product taken in 32 bits, as int(w)*int(h)
\* wraps where int is 32 bits wide: the product is assembled from 16-bit
\* halves and a set sign bit makes it negative, hence not above the limit.
PixelsExceed_Int32(w, h, limit) ==
    LET a  == w * (h \div 256)
        r  == (a % 256) * 256 + w * (h % 256)
        hi == ((a \div 256) + (r \div 65536)) % 65536
        lo == r % 65536
    IN hi < 32768 /\ hi * 65536 + lo > limit

PixelsExceed(w, h, limit) == w > limit \div h

\* Phase 1 of decodeSafe: the header-only DecodeConfig for the sniffed format.
\* The default branch (image.DecodeConfig) is reached for "webp" only, for
\* which no decoder is registered (image/gif, image/jpeg, image/png, x/image
\* bmp and tiff are the imports), so it fails.
decodeConfig(f, format) ==
    IF format \in {"jpeg", "png", "gif", "bmp", "tiff"}
    THEN [err |-> f.cfgErr, w |-> f.w, h |-> f.h]
    ELSE [err |-> TRUE, w |-> 0, h |-> 0]

checkDimensions_NoPixelCount(w, h) ==
    IF w <= 0 \/ h <= 0 THEN "invalid dimensions"
    ELSE IF w > MaxImageDimension \/ h > MaxImageDimension THEN "monster image"
    ELSE ""

\* The bounds checks between the two phases; "" when the dimensions pass.
checkDimensions(w, h) ==
    IF w <= 0 \/ h <= 0 THEN "invalid dimensions"
    ELSE IF w > MaxImageDimension \/ h > MaxImageDimension THEN "monster image"
    ELSE IF PixelsExceed(w, h, MaxPixelCount) THEN "pixel bomb"
    ELSE ""

NoImage == [w |-> 0, h |-> 0, pix |-> "none", alpha |-> FALSE]

\* Phase 2 of decodeSafe: the full pixel decode.
decodeFull(f, format) ==
    IF f.decErr \/ format \notin {"jpeg", "png", "gif", "bmp", "tiff"}
    THEN [err |-> TRUE, img |-> NoImage]
    ELSE [err |-> FALSE, img |-> [w |-> f.w, h |-> f.h, pix |-> f.pix, alpha |-> f.alpha]]

\* decodeSafe as one call: [err, img, fullDecode], fullDecode telling whether
\* phase 2 was started.
decodeSafe(f, format) ==
    LET cfg == decodeConfig(f, format) IN
    IF cfg.err THEN [err |-> "config", img |-> NoImage, fullDecode |-> FALSE]
    ELSE IF checkDimensions(cfg.w, cfg.h) # ""
        THEN [err |-> checkDimensions(cfg.w, cfg.h), img |-> NoImage, fullDecode |-> FALSE]
    ELSE LET d == decodeFull(f, format) IN
         IF d.err THEN [err |-> "decode", img |-> NoImage, fullDecode |-> TRUE]
         ELSE [err |-> "", img |-> d.img, fullDecode |-> TRUE]

\* ------------------------------------------------------------ pixel steps
\* An applied-transform tag: its name, and the formats / numbers fmt.Sprintf
\* puts into it.
Act(tag, fmts, nums) == [tag |-> tag, fmts |-> fmts, nums |-> nums]

Tag(tag) == Act(tag, <<>>, <<>>)

NoAct == Tag("")

\* needsExifRotation answering true for every readable orientation tag.
needsExifRotation_AnyTag(f) == f.exif.st = "ok"

\* needsExifRotation: every failure to read the orientation gives false.
needsExifRotation(f) == f.exif.st = "ok" /\ f.exif.orient > 1

\* The imaging transforms return a fresh *image.NRGBA; transpose-like ones
\* swap the sides.
Rotated(img, swap) ==
    [w |-> IF swap THEN img.h ELSE img.w, h |-> IF swap THEN img.w ELSE img.h,
     pix |-> "NRGBA", alpha |-> img.alpha]

exifRotate(f, img) ==
    IF f.exif.st \in {"noexif", "notag"} THEN [img |-> img, act |-> NoAct]
    ELSE IF f.exif.st = "badint" \/ f.exif.orient <= 1
        THEN [img |-> img, act |-> Tag("EXIF_STRIPPED")]
    ELSE CASE f.exif.orient = 2 -> [img |-> Rotated(img, FALSE), act |-> Tag("EXIF_FLIP_H")]
           [] f.exif.orient = 3 -> [img |-> Rotated(img, FALSE), act |-> Tag("EXIF_ROT_180")]
           [] f.exif.orient = 4 -> [img |-> Rotated(img, FALSE), act |-> Tag("EXIF_FLIP_V")]
           [] f.exif.orient = 5 -> [img |-> Rotated(img, TRUE), act |-> Tag("EXIF_TRANSPOSE")]
           [] f.exif.orient = 6 -> [img |-> Rotated(img, TRUE), act |-> Tag("EXIF_ROT_270")]
           [] f.exif.orient = 7 -> [img |-> Rotated(img, TRUE), act |-> Tag("EXIF_TRANSVERSE")]
           [] f.exif.orient = 8 -> [img |-> Rotated(img, TRUE), act |-> Tag("EXIF_ROT_90")]
           [] OTHER -> [img |-> img, act |-> Tag("EXIF_STRIPPED")]

toRGB(img) ==
    IF img.pix \in {"RGBA", "NRGBA"} THEN [img |-> img, act |-> NoAct]
    ELSE [img |-> [img EXCEPT !.pix = "RGBA"], act |-> Tag("FORCE_sRGB")]

\* img.alpha: some sampled pixel has alpha < 255.
flattenAlpha(img) ==
    IF img.pix \notin {"RGBA", "NRGBA"} THEN [img |-> img, act |-> NoAct]
    ELSE IF ~img.alpha THEN [img |-> img, act |-> NoAct]
    ELSE [img |-> [img EXCEPT !.pix = "RGBA", !.alpha = FALSE],
          act |-> Tag("ALPHA_FLAT_WHITE")]

resizeIfNeeded(img) ==
    LET w == img.w
        h == img.h
        maxSide == IF h > w THEN h ELSE w
        newW == IF w > h THEN MaxImageLongSide ELSE (w * MaxImageLongSide) \div h
        newH == IF w > h THEN (h * MaxImageLongSide) \div w ELSE MaxImageLongSide
    IN IF maxSide <= MaxImageLongSide THEN [img |-> img, act |-> NoAct]
       ELSE [img |-> [img EXCEPT !.w = newW, !.h = newH, !.pix = "NRGBA"],
             act |-> Act("RESIZE", <<>>, <<w, h, newW, newH>>)]

\* ------------------------------------------------------------ log
\* App.log: trim the buffer when full, append the line, take the next
\* sequence number.
logAppend(buf, line) ==
    Append(IF Len(buf) >= MaxLogLines THEN Slice(buf, MaxLogLines \div 5, Len(buf)) ELSE buf,
           line)

Line(msg, n) == [msg |-> msg, n |-> n]

\* The buffer after a.log was called with each of lines in turn.
RECURSIVE logAll(_, _)
logAll(buf, lines) ==
    IF lines = <<>> THEN buf ELSE logAll(logAppend(buf, Head(lines)), Tail(lines))

Earliest_Zero(total, bufLen) == 0

\* GetLogsSince, lines 203-206: the sequence number of the first line the
\* buffer still holds.
Earliest(total, bufLen) == IF total - bufLen < 0 THEN 0 ELSE total - bufLen

\* Lines 208-211.
StartIdx(since, earliest) == IF since - earliest < 0 THEN 0 ELSE since - earliest

\* GetLogsSince(since) on a buffer buf with logSeq = total.
GetLogsSince(buf, total, since) ==
    IF StartIdx(since, Earliest(total, Len(buf))) >= Len(buf)
    THEN [lines |-> <<>>, nextSeq |-> total]
    ELSE [lines |-> Slice(buf, StartIdx(since, Earliest(total, Len(buf))), Len(buf)),
          nextSeq |-> total]

\* ------------------------------------------------------------ disk
\* What is on disk for one image path: the file at the path itself ("original",
\* "patched" by the fast path, "reencoded", or "removed"), whether the .svg
\* placeholder of the same base name was written, and the sibling temp file
\* <path>.athanor_tmp ("none", or "empty" / "partial" / "full" by how far the
\* write got).
FreshDisk == [orig |-> "original", svg |-> FALSE, tmp |-> "none"]

\* placeholder: write <base>.svg, then remove the file. f.ph names the steps
\* that fail ("none", "write", "remove", "both"); a failure is logged and
\* nothing else.
placeholder(f, d) ==
    [d EXCEPT !.svg = IF f.ph \in {"write", "both"} THEN d.svg ELSE TRUE,
              !.orig = IF f.ph \in {"remove", "both"} THEN d.orig ELSE "removed"]

\* The lines placeholder logs.
placeholderLog(f) ==
    (IF f.ph \in {"write", "both"} THEN <<Line("placeholder_write_failed", 0)>> ELSE <<>>)
      \o (IF f.ph \in {"remove", "both"} THEN <<Line("placeholder_remove_failed", 0)>>
          ELSE <<>>)

\* The length injectJFIFDPI returns for the file's bytes: unchanged when they
\* hold a JFIF APP0 segment, 18 more when one is inserted.
PatchedLen(f) == IF f.jfif THEN f.size ELSE f.size + 18

NoReport ==
    [FilePath |-> [name |-> 0, ext |-> ""], OriginalFormat |-> "", Actions |-> <<>>, Status |-> "",
     Error |-> "", FileSizeBefore |-> 0, FileSizeAfter |-> 0]

\* tryFastPath: [ok, report, disk]. f.fp names the I/O step of the fast path
\* that fails for this file ("none", "read", "create", "write", "rename").
tryFastPath(f, d) ==
    LET ext == ToLowerExt(f.path.ext)
        sn == sniffFormat(f.head)
        no(disk) == [ok |-> FALSE, report |-> NoReport, disk |-> disk]
    IN IF ext # ".jpg" /\ ext # ".jpeg" THEN no(d)
       ELSE IF sn.err # "" \/ sn.format # "jpeg" THEN no(d)
       ELSE IF needsExifRotation(f) THEN no(d)
       ELSE IF f.fp = "read" \/ f.size < MinJPEGLen THEN no(d)
       ELSE IF f.fp = "create" THEN no(d)
       ELSE IF f.fp = "write" THEN no([d EXCEPT !.tmp = "partial"])
       ELSE IF f.fp = "rename" THEN no([d EXCEPT !.tmp = "none"])
       ELSE [ok |-> TRUE,
             report |-> [FilePath |-> f.path, OriginalFormat |-> "jpeg",
                         Actions |-> <<Act("FAST_DPI", <<>>, <<TargetDPI>>)>>,
                         Status |-> "OK", Error |-> "",
                         FileSizeBefore |-> f.size, FileSizeAfter |-> PatchedLen(f)],
             disk |-> [d EXCEPT !.orig = "patched", !.tmp = "none"]]

\* reencode (with savePNGWithDPI / saveJPEGWithDPI): [err, disk]. f.re names
\* the step that fails ("none", "create", "encode", "write", "rename").
reencode(f, img, ext, d) ==
    IF f.re = "create" THEN [err |-> "create", disk |-> d]
    ELSE IF f.re = "encode" THEN [err |-> "encode", disk |-> [d EXCEPT !.tmp = "empty"]]
    ELSE IF f.re = "write" THEN [err |-> "write", disk |-> [d EXCEPT !.tmp = "partial"]]
    ELSE IF f.re = "rename" THEN [err |-> "rename", disk |-> [d EXCEPT !.tmp = "full"]]
    ELSE [err |-> "", disk |-> [d EXCEPT !.orig = "reencoded", !.tmp = "none"]]

\* One pixel step of sanitizeOne: the step's image replaces the current one
\* and its tag is appended when the step acted.
Step(st, res) ==
    [img |-> IF res.act # NoAct THEN res.img ELSE st.img,
     acts |-> IF res.act # NoAct THEN Append(st.acts, res.act) ELSE st.acts]

\* The full path of sanitizeOne after a successful decode: the four pixel
\* steps in order (exifRotate, toRGB, flattenAlpha, resizeIfNeeded).
StepExif(f, st) == Step(st, exifRotate(f, st.img))

StepRGB(st) == Step(st, toRGB(st.img))

StepAlpha(st) == Step(st, flattenAlpha(st.img))

StepResize(st) == Step(st, resizeIfNeeded(st.img))

Normalize(f, img0) ==
    StepResize(StepAlpha(StepRGB(StepExif(f, [img |-> img0, acts |-> <<>>]))))

\* The report sanitizeOne starts from.
Report0(f) ==
    [FilePath |-> f.path, OriginalFormat |-> "", Actions |-> <<>>,
     Status |-> "OK", Error |-> "", FileSizeBefore |-> f.size,
     FileSizeAfter |-> 0]

\* The SPOOF tag: the extension names a format other than the sniffed one.
Spoof(f, format) ==
    IF extToFormat(f.path.ext) # "" /\ extToFormat(f.path.ext) # format
    THEN <<Act("SPOOF", <<extToFormat(f.path.ext), format>>, <<>>)>> ELSE <<>>

\* The tags of a finished re-encode.
DoneActions(acts) ==
    acts \o <<Act("FORCE_DPI", <<>>, <<TargetDPI>>), Tag("CLEAN_BINARY")>>

FinalStatus_MoreThanThree(actions) == IF Len(actions) > 3 THEN "REPAIRED" ELSE "OK"

\* Lines 495-497: more than the two baseline tags make the status REPAIRED.
FinalStatus(actions) == IF Len(actions) > 2 THEN "REPAIRED" ELSE "OK"

\* sanitizeOne from the re-encode on.
AfterEncode(f, format, acts, enc) ==
    IF enc.err # ""
    THEN [report |-> [Report0(f) EXCEPT !.OriginalFormat = format, !.Status = "FAILED",
                                        !.Error = enc.err,
                                        !.Actions = Append(acts, Tag("REENCODE_FAILED"))],
          disk |-> placeholder(f, enc.disk), logs |-> placeholderLog(f),
          fullDecode |-> TRUE]
    ELSE [report |-> [Report0(f) EXCEPT !.OriginalFormat = format,
                                        !.Actions = DoneActions(acts),
                                        !.FileSizeAfter = f.encSize,
                                        !.Status = FinalStatus(DoneActions(acts))],
          disk |-> enc.disk, logs |-> <<>>, fullDecode |-> TRUE]

\* sanitizeOne from the pixel steps on.
AfterNormalize(f, d1, format, spoof, nz) ==
    AfterEncode(f, format, spoof \o nz.acts,
                reencode(f, nz.img, ToLowerExt(f.path.ext), d1))

\* sanitizeOne from the decode on.
AfterDecode(f, d1, format, dec) ==
    IF dec.err # ""
    THEN [report |-> [Report0(f) EXCEPT !.OriginalFormat = format, !.Status = "REPLACED",
                                        !.Error = dec.err,
                                        !.Actions = Append(Spoof(f, format),
                                                           Tag("DECODE_FAIL_REPLACED"))],
          disk |-> placeholder(f, d1), logs |-> placeholderLog(f),
          fullDecode |-> dec.fullDecode]
    ELSE AfterNormalize(f, d1, format, Spoof(f, format), Normalize(f, dec.img))

\* sanitizeOne from the magic sniff on, a sniff failure reported as REPLACED.
AfterSniff_Replaced(f, d1, sn) ==
    IF sn.err # ""
    THEN [report |-> [Report0(f) EXCEPT !.Status = "REPLACED", !.Error = sn.err,
                                        !.Actions = <<Tag("INVALID_REPLACED")>>],
          disk |-> placeholder(f, d1), logs |-> placeholderLog(f),
          fullDecode |-> FALSE]
    ELSE AfterDecode(f, d1, sn.format, decodeSafe(f, sn.format))

\* sanitizeOne from the magic sniff on.
AfterSniff(f, d1, sn) ==
    IF sn.err # ""
    THEN [report |-> [Report0(f) EXCEPT !.Status = "FAILED", !.Error = sn.err,
                                        !.Actions = <<Tag("INVALID_REPLACED")>>],
          disk |-> placeholder(f, d1), logs |-> placeholderLog(f),
          fullDecode |-> FALSE]
    ELSE AfterDecode(f, d1, sn.format, decodeSafe(f, sn.format))

\* sanitizeOne after the fast path was tried.
AfterFast(f, fast) ==
    IF fast.ok
    THEN [report |-> fast.report, disk |-> fast.disk, logs |-> <<>>, fullDecode |-> FALSE]
    ELSE AfterSniff(f, fast.disk, sniffFormat(f.head))

\* sanitizeOne: [report, disk, logs, fullDecode] for file f found with disk state d.
sanitizeOne(f, d) == AfterFast(f, tryFastPath(f, d))

\* ------------------------------------------------------------ files
HeadJPEG == <<255, 216, 255, 224, 0, 16, 74, 70, 73, 70, 0, 1>>

HeadJPEGExif == <<255, 216, 255, 225, 0, 32, 69, 120, 105, 102, 0, 0>>

HeadPNG == <<137, 80, 78, 71, 13, 10, 26, 10, 0, 0, 0, 13>>

HeadWEBP == <<82, 73, 70, 70, 36, 0, 0, 0, 87, 69, 66, 80>>

HeadUnknown == <<0, 1, 2, 3, 4, 5, 6, 7, 8, 9, 10, 11>>

HeadOneByte == <<255>>

\* A clean baseline JPEG with a JFIF header and no EXIF data.
BaseFile ==
    [ent |-> "file", path |-> [name |-> 0, ext |-> ".jpg"], head |-> HeadJPEG,
     size |-> 64, jfif |-> TRUE, exif |-> [st |-> "noexif", orient |-> 0],
     cfgErr |-> FALSE, w |-> 100, h |-> 100, decErr |-> FALSE, pix |-> "other",
     alpha |-> FALSE, fp |-> "none", re |-> "none", ph |-> "none", encSize |-> 80]

\* The entries a walked tree is drawn from: a clean JPEG (fast path), a PNG
\* with transparency, a .png of unknown magic whose placeholder cannot be
\* written, a PNG declaring 60000x60000,
\* a rotated JPEG whose re-encode cannot rename, a file that is no image, and
\* an entry the walk cannot read.
TreeEntries ==
    { BaseFile,
      [BaseFile EXCEPT !.path.ext = ".png", !.head = HeadPNG, !.jfif = FALSE,
                       !.pix = "NRGBA", !.alpha = TRUE],
      [BaseFile EXCEPT !.path.ext = ".png", !.head = HeadUnknown, !.jfif = FALSE,
                       !.ph = "write"],
      [BaseFile EXCEPT !.path.ext = ".PNG", !.head = HeadPNG, !.jfif = FALSE,
                       !.w = 60000, !.h = 60000],
      [BaseFile EXCEPT !.path.ext = ".jpeg", !.head = HeadJPEGExif, !.jfif = FALSE,
                       !.exif = [st |-> "ok", orient |-> 6], !.re = "rename"],
      [BaseFile EXCEPT !.path.ext = ".xhtml", !.head = HeadUnknown],
      [BaseFile EXCEPT !.ent = "err"] }

\* The trees of at most MaxFiles entries; the i-th entry is named i.
Trees ==
    UNION { { [i \in 1..n |-> [t[i] EXCEPT !.path.name = i]] : t \in [1..n -> TreeEntries] }
            : n \in 0..MaxFiles }

\* ------------------------------------------------------------ bytes
\* The exclusive or of two n-bit numbers.
RECURSIVE XorBits(_, _, _)
XorBits(a, b, n) ==
    IF n = 0 THEN 0
    ELSE (((a % 2) + (b % 2)) % 2) + 2 * XorBits(a \div 2, b \div 2, n - 1)

Xor8(a, b) == XorBits(a, b, 8)

\* A uint32 is kept as its four bytes, most significant first (a uint32 does
\* not fit the model checker's integers).
U32(n) == <<(n \div 16777216) % 256, (n \div 65536) % 256, (n \div 256) % 256, n % 256>>

Xor32(x, y) == <<Xor8(x[1], y[1]), Xor8(x[2], y[2]), Xor8(x[3], y[3]), Xor8(x[4], y[4])>>

\* x >> 1 and x >> 8 on four bytes.
Shr1(x) ==
    <<x[1] \div 2, (x[1] % 2) * 128 + x[2] \div 2, (x[2] % 2) * 128 + x[3] \div 2,
      (x[3] % 2) * 128 + x[4] \div 2>>

Shr8(x) == <<0, x[1], x[2], x[3]>>

U16BE_LittleEndian(n) == <<n % 256, (n \div 256) % 256>>

\* binary.BigEndian.PutUint16(uint16(n))
U16BE(n) == <<(n \div 256) % 256, n % 256>>

\* The reflected CRC-32 polynomial 0xEDB88320.
CRCPoly == <<237, 184, 131, 32>>

\* init(): one table entry, eight shift-and-conditionally-xor rounds.
RECURSIVE CRCRounds(_, _)
CRCRounds(c, j) ==
    IF j = 0 THEN c
    ELSE CRCRounds(IF c[4] % 2 # 0 THEN Xor32(CRCPoly, Shr1(c)) ELSE Shr1(c), j - 1)

crc32PNGTable == [i \in 0..255 |-> CRCRounds(<<0, 0, 0, i>>, 8)]

\* Line 991: crc = crc32PNGTable[byte(crc)^b] ^ (crc >> 8)
CRCStep(crc, b) == Xor32(crc32PNGTable[Xor8(crc[4], b)], Shr8(crc))

\* Lines 990-992: the loop over the bytes lo..hi of data, from the value crc.
\* The range is walked as its first half and then its second half, the value
\* after the first half computed once and handed on.
RECURSIVE CRCUpdate(_, _, _, _)
CRCUpdate(crc, data, lo, hi) ==
    IF lo > hi THEN crc
    ELSE IF lo = hi THEN CRCStep(crc, data[lo])
    ELSE CHOOSE r \in { CRCUpdate(c, data, (lo + hi) \div 2 + 1, hi)
                          : c \in {CRCUpdate(crc, data, lo, (lo + hi) \div 2)} } : TRUE

crc32PNG_NoFinalXor(data) == CRCUpdate(<<255, 255, 255, 255>>, data, 1, Len(data))

\* crc32PNG: the table-driven CRC-32 of a byte string, as four bytes.
crc32PNG(data) ==
    Xor32(CRCUpdate(<<255, 255, 255, 255>>, data, 1, Len(data)), <<255, 255, 255, 255>>)

\* ------------------------------------------------------------ injectJFIFDPI
\* Lines 868-877: the first i in 2 .. len(data)-17 at which FF E0 stands with
\* "JFIF\0" four bytes on; -1 when the loop ends without one.
RECURSIVE JFIFScan(_, _)
JFIFScan(data, i) ==
    IF ~(i < Len(data) - 16) THEN -1
    ELSE IF At(data, i) = 255 /\ At(data, i + 1) = 224
            /\ i + 9 <= Len(data) /\ Slice(data, i + 4, i + 9) = B_JFIF0
        THEN i
    ELSE JFIFScan(data, i + 1)

NewJFIF_NoUnits(dpi) ==
    <<255, 224, 0, 16>> \o B_JFIF0 \o <<1, 1, 0>>
      \o <<(dpi \div 256) % 256, dpi % 256, (dpi \div 256) % 256, dpi % 256>> \o <<0, 0>>

\* The APP0 segment of lines 879-888.
NewJFIF(dpi) ==
    <<255, 224, 0, 16>> \o B_JFIF0 \o <<1, 1, 1>>
      \o <<(dpi \div 256) % 256, dpi % 256, (dpi \div 256) % 256, dpi % 256>> \o <<0, 0>>

\* Lines 871-874: the units byte and the two density fields of the segment
\* at i are overwritten in place.
PatchJFIF(data, dpi, i) ==
    [k \in 1..Len(data) |->
        IF k = i + 12 THEN 1
        ELSE IF k \in {i + 13, i + 14} THEN U16BE(dpi)[k - (i + 12)]
        ELSE IF k \in {i + 15, i + 16} THEN U16BE(dpi)[k - (i + 14)]
        ELSE data[k]]

\* Lines 890-894: the new segment goes in after the first two bytes.
InsertJFIF(data, dpi) == Slice(data, 0, 2) \o NewJFIF(dpi) \o Slice(data, 2, Len(data))

JFIFResult(data, dpi, i) == IF i >= 0 THEN PatchJFIF(data, dpi, i) ELSE InsertJFIF(data, dpi)

injectJFIFDPI(data, dpi) ==
    IF Len(data) < MinJPEGLen THEN data
    ELSE JFIFResult(data, dpi, JFIFScan(data, 2))

\* ------------------------------------------------------------ injectPNGpHYs
\* uint32(float64(dpi) / 0.0254): the conversion truncates.
PixelsPerMetre(dpi) == (dpi * 10000) \div 254

\* int(binary.BigEndian.Uint32(...)) of the four bytes at offset, int being
\* 64 bits wide. A length of 2^31 or more is beyond any data and always ends
\* the walk as a truncated chunk (line 933); it is reported as -1.
ChunkLenAt(data, offset) ==
    IF At(data, offset) >= 128 THEN -1
    ELSE At(data, offset) * 16777216 + At(data, offset + 1) * 65536
         + At(data, offset + 2) * 256 + At(data, offset + 3)

\* Bytes 4-8 of the chunk at offset.
ChunkTypeAt(data, offset) == Slice(data, offset + 4, offset + 8)

\* The chunk's extent without its CRC field.
ChunkTotal_NoCRC(chunkLen) == 4 + 4 + chunkLen

\* chunkTotal := 4 + 4 + chunkLen + 4
ChunkTotal(chunkLen) == 4 + 4 + chunkLen + 4

\* The first position at or after from where the bytes of pat stand in data
\* (0-based), or -1.
RECURSIVE IndexFrom(_, _, _)
IndexFrom(data, pat, from) ==
    IF from + Len(pat) > Len(data) THEN -1
    ELSE IF Slice(data, from, from + Len(pat)) = pat THEN from
    ELSE IndexFrom(data, pat, from + 1)

RawOffset(at, back) == IF at < 0 THEN -1 ELSE at + back

PNGWalk_RawSearch(data, offset, ihdrEnd) ==
    [phys |-> RawOffset(IndexFrom(data, B_pHYs, offset), -4),
     ihdrEnd |-> RawOffset(IndexFrom(data, B_IHDR, offset), 21)]

\* Lines 927-955: walk the chunks from offset; [phys, ihdrEnd], phys the
\* offset of the first 9-byte pHYs chunk or -1, ihdrEnd the end of the last
\* IHDR chunk walked over.
RECURSIVE PNGWalk(_, _, _)
PNGChunk(data, offset, ihdrEnd, chunkLen) ==
    IF chunkLen < 0 \/ offset + ChunkTotal(chunkLen) > Len(data)
    THEN [phys |-> -1, ihdrEnd |-> ihdrEnd]
    ELSE IF ChunkTypeAt(data, offset) = B_IHDR
    THEN PNGWalk(data, offset + ChunkTotal(chunkLen), offset + ChunkTotal(chunkLen))
    ELSE IF ChunkTypeAt(data, offset) = B_pHYs /\ chunkLen = 9
    THEN [phys |-> offset, ihdrEnd |-> ihdrEnd]
    ELSE PNGWalk(data, offset + ChunkTotal(chunkLen), ihdrEnd)

PNGWalk(data, offset, ihdrEnd) ==
    IF ~(offset + 12 <= Len(data)) THEN [phys |-> -1, ihdrEnd |-> ihdrEnd]
    ELSE PNGChunk(data, offset, ihdrEnd, ChunkLenAt(data, offset))

\* The nine data bytes of a pHYs chunk: X and Y pixels per unit, unit metre.
PhysData(ppm) == U32(ppm) \o U32(ppm) \o <<1>>

\* Lines 962-978: the 21-byte chunk.
NewPhys(ppm) ==
    U32(9) \o B_pHYs \o PhysData(ppm) \o crc32PNG(B_pHYs \o PhysData(ppm))

PhysResult_AlwaysInsert(data, ppm, wk) ==
    IF wk.ihdrEnd < 0 \/ wk.ihdrEnd > Len(data) THEN data
    ELSE Slice(data, 0, wk.ihdrEnd) \o NewPhys(ppm) \o Slice(data, wk.ihdrEnd, Len(data))

\* Lines 937-946 and 957-984: patch the chunk found, or insert a new one
\* after IHDR, or give the data back when no IHDR end is known.
PhysResult(data, ppm, wk) ==
    IF wk.phys >= 0
    THEN Slice(data, 0, wk.phys + 8) \o PhysData(ppm)
           \o crc32PNG(B_pHYs \o PhysData(ppm))
           \o Slice(data, wk.phys + 21, Len(data))
    ELSE IF wk.ihdrEnd < 0 \/ wk.ihdrEnd > Len(data) THEN data
    ELSE Slice(data, 0, wk.ihdrEnd) \o NewPhys(ppm) \o Slice(data, wk.ihdrEnd, Len(data))

injectPNGpHYs(data, dpi) ==
    IF Len(data) < MinPNGLen THEN data
    ELSE PhysResult(data, PixelsPerMetre(dpi), PNGWalk(data, 8, -1))

\* ------------------------------------------------------------ paths
\* A path or entry name is a string: a sequence of one-character strings.
\* os.PathSeparator of the modelled host is "/".
HasPrefix(s, prefix) ==
    Len(s) >= Len(prefix) /\ SubSeq(s, 1, Len(prefix)) = prefix

\* strings.Split(s, "/"): the components of s, empty ones included.
RECURSIVE SplitAcc(_, _, _)
SplitAcc(s, cur, acc) ==
    IF s = <<>> THEN Append(acc, cur)
    ELSE IF Head(s) = "/" THEN SplitAcc(Tail(s), <<>>, Append(acc, cur))
    ELSE SplitAcc(Tail(s), Append(cur, Head(s)), acc)

Split(s) == SplitAcc(s, <<>>, <<>>)

RECURSIVE JoinComps(_)
JoinComps(comps) ==
    IF comps = <<>> THEN <<>>
    ELSE IF Len(comps) = 1 THEN comps[1]
    ELSE comps[1] \o <<"/">> \o JoinComps(Tail(comps))

DotDot == <<".", ".">>

\* The component stack of filepath.Clean: "" and "." dropped, ".." removing
\* the component before it, dropped at the root, kept at the start of a
\* relative path.
RECURSIVE CleanComps(_, _, _)
CleanComps(comps, rooted, out) ==
    IF comps = <<>> THEN out
    ELSE LET c == Head(comps) IN
         IF c = <<>> \/ c = <<".">> THEN CleanComps(Tail(comps), rooted, out)
         ELSE IF c = DotDot
         THEN IF out # <<>> /\ out[Len(out)] # DotDot
              THEN CleanComps(Tail(comps), rooted, SubSeq(out, 1, Len(out) - 1))
              ELSE IF rooted THEN CleanComps(Tail(comps), rooted, out)
              ELSE CleanComps(Tail(comps), rooted, Append(out, c))
         ELSE CleanComps(Tail(comps), rooted, Append(out, c))

\* filepath.Clean
Clean(s) ==
    LET rooted == s # <<>> /\ s[1] = "/"
        body == JoinComps(CleanComps(Split(s), rooted, <<>>))
    IN IF rooted THEN <<"/">> \o body
       ELSE IF body = <<>> THEN <<".">> ELSE body

\* filepath.Join(a, b): the non-empty elements joined by "/", then cleaned.
Join(a, b) ==
    IF a = <<>> /\ b = <<>> THEN <<>>
    ELSE IF a = <<>> THEN Clean(b)
    ELSE IF b = <<>> THEN Clean(a)
    ELSE Clean(a \o <<"/">> \o b)

\* filepath.Dir of a clean path.
Dir(s) ==
    LET comps == Split(s)
        up == JoinComps(SubSeq(comps, 1, Len(comps) - 1))
    IN IF Len(comps) <= 1 THEN <<".">>
       ELSE IF up = <<>> THEN <<"/">> ELSE up

\* ------------------------------------------------------------ unzipStreaming
\* The zip-slip test of line 1029: TRUE when the entry is let through.
SlipCheck_NoSeparator(fpath, dest) == HasPrefix(Clean(fpath), Clean(dest))

SlipCheck(fpath, dest) == HasPrefix(Clean(fpath), Clean(dest) \o <<"/">>)

\* zf.FileInfo().IsDir(): a name ending in "/".
EntryIsDir(name) == name # <<>> /\ name[Len(name)] = "/"

\* The extraction directory tree: a function from clean paths to "dir" or
\* "file". The root and the working directory always exist.
FsIsDir(fs, p) == p \in {<<"/">>, <<".">>} \/ (p \in DOMAIN fs /\ fs[p] = "dir")

FsIsFile(fs, p) == p \in DOMAIN fs /\ fs[p] = "file"

\* os.MkdirAll(p): make p and its missing ancestors; it stops (and its error
\* is dropped by the caller) at an ancestor that is a file.
MkdirUnder(up, p) == IF FsIsDir(up, Dir(p)) THEN (p :> "dir") @@ up ELSE up

RECURSIVE MkdirAll(_, _)
MkdirAll(fs, p) ==
    IF FsIsDir(fs, p) THEN fs
    ELSE IF FsIsFile(fs, p) THEN fs
    ELSE MkdirUnder(MkdirAll(fs, Dir(p)), p)

\* extractFile: zf.Open(), os.OpenFile(dest, O_WRONLY|O_CREATE|O_TRUNC) and the
\* copy; [err, fs]. It fails on an entry that cannot be read, on a directory
\* and below a missing parent.
extractFile(zf, fs, fpath) ==
    IF ~zf.ok THEN [err |-> TRUE, fs |-> fs]
    ELSE IF FsIsDir(fs, fpath) \/ ~FsIsDir(fs, Dir(fpath)) THEN [err |-> TRUE, fs |-> fs]
    ELSE [err |-> FALSE, fs |-> (fpath :> "file") @@ fs]

\* ------------------------------------------------------------ zipEPUBStrict
\* A tree path is its components below srcDir; a name is a sequence of
\* tokens, components and separators.
RECURSIVE JoinWith(_, _)
JoinWith(comps, sep) ==
    IF comps = <<>> THEN <<>>
    ELSE IF Len(comps) = 1 THEN <<comps[1]>>
    ELSE <<comps[1], sep>> \o JoinWith(Tail(comps), sep)

\* filepath.ToSlash on a host whose separator is sep.
ToSlash(name, sep) == [k \in 1..Len(name) |-> IF name[k] = sep THEN "/" ELSE name[k]]

\* filepath.Base of a walked path.
Base(comps) == comps[Len(comps)]

IsSpace(t) == t \in {" ", "\n", "\r", "\t"}

\* bytes.TrimSpace
RECURSIVE TrimSpace(_)
TrimSpace(data) ==
    IF data = <<>> THEN data
    ELSE IF IsSpace(Head(data)) THEN TrimSpace(Tail(data))
    ELSE IF IsSpace(data[Len(data)]) THEN TrimSpace(SubSeq(data, 1, Len(data) - 1))
    ELSE data

\* Line 1092: the walked entries the callback leaves out of the archive.
WalkSkips(e) == e.kind = "dir" \/ Base(e.rel) = "mimetype"

\* ============================================================ sanitizeAllImages
VARIABLES
    tree,        \* the entries filepath.WalkDir visits, in walk order
    numCPU,      \* runtime.NumCPU()
    imagePaths,  \* the discovered image files, in discovery order
    mpc,         \* where the calling goroutine is
    workers,     \* the size of the worker pool
    jobs,        \* the buffered channel of indices
    jobsClosed,  \* close(jobs) was called
    nextJob,     \* the dispatch loop's i (1-based)
    wpc,         \* where each worker goroutine is
    widx,        \* each worker's idx
    wn,          \* each worker's n, the value processed.Add(1) returned
    reports,     \* the pre-sized results array
    writes,      \* how many times each slot of reports was written
    processed,   \* the atomic completion counter
    disk,        \* the disk state of each discovered path
    ret,         \* what sanitizeAllImages returned
    logBuffer,   \* App.logBuffer
    logSeq,      \* App.logSeq
    \* one call of sanitizeOne
    file,        \* the file at the path
    opc,         \* "start" before the call, "done" after it
    oreport,     \* the report returned
    odisk,       \* the disk state of the path
    ofull,       \* the full pixel decode was started
    \* one call of decodeSafe
    dfile,       \* the file decoded
    dformat,     \* the format argument
    dpc,         \* where the call is
    dcfg,        \* the image.Config phase 1 read
    dresult,     \* what decodeSafe returned
    dfull,       \* the full pixel decode was started
    \* one call of unzipStreaming
    archive,     \* the entry names of the archive, in order
    zipOK,       \* zip.OpenReader can read the archive
    dest,        \* the destination root
    upc,         \* where the call is
    uzi,         \* the index of the entry the loop is at
    uzfs,        \* the directories and files on disk
    uzret,       \* what unzipStreaming returned
    \* one call of zipEPUBStrict
    srcTree,     \* the entries below srcDir, in walk order
    hostSep,     \* the host's path separator
    destOK,      \* os.Create(destFile) can create the archive
    zpc,         \* where the call is
    zwalk,       \* the index of the entry the walk is at
    zentries,    \* the entries written to the archive, in order
    zret,        \* what zipEPUBStrict returned
    \* one call of injectJFIFDPI
    jdata,       \* the input bytes
    jdpi,        \* the dpi argument
    jout,        \* the bytes returned
    jpc,         \* "start" before the call, "done" after it
    \* one call of injectPNGpHYs
    pdata,       \* the input bytes
    pdpi,        \* the dpi argument
    pout,        \* the bytes returned
    pagain,      \* the bytes a second call returns for the first call's output
    ppc,         \* "start" before the call, "done" after it, "again" after the second
    \* one file's replacement on disk, step by step
    rkind,       \* "fast" for a file the fast path takes, else ".jpg" or ".png"
    rpc,         \* the I/O step the replacement is at
    rdisk,       \* what is at the original path and at the temp path
    \* one call of GetLogsSince
    gsince,      \* the since argument
    gresult,     \* the map returned
    \* one call of sniffFormat
    sfile,       \* the bytes of the file at the path
    sext,        \* the extension of the path
    sopen,       \* os.Open can open the file
    spc,         \* "start" before the call, "done" after it
    sresult,     \* what sniffFormat returned
    \* one call of crc32PNG
    cdata,       \* the input bytes
    cout,        \* the uint32 returned, as four bytes
    cpc,         \* "start" before the call, "done" after it
    \* concurrent calls of ConvertBook
    isProcessing, \* App.isProcessing
    currentJobID, \* App.currentJobID
    cbpc,        \* where each caller's call is
    cbfmt,       \* each call's outputFormat argument
    cbcalls,     \* how many calls each caller has made
    cbres,       \* the result each caller's call returned
    \* one call of runLaTeX
    lpass,       \* the loop's pass
    lpc,         \* where the call is
    lproc,       \* the child process of the pass
    lctx,        \* ctx.Err() of the pass's context
    lapp,        \* a.ctx.Err() != nil
    lwaitErr,    \* cmd.Wait() returned an error
    lpdf,        \* output.pdf exists with more than 1024 bytes
    lret         \* what runLaTeX returned

fanVars ==
    <<tree, numCPU, imagePaths, mpc, workers, jobs, jobsClosed, nextJob, wpc, widx,
      wn, reports, writes, processed, disk, ret>>

logVars == <<logBuffer, logSeq>>

oneVars == <<file, opc, oreport, odisk, ofull>>

decVars == <<dfile, dformat, dpc, dcfg, dresult, dfull>>

uzVars == <<archive, zipOK, dest, upc, uzi, uzfs, uzret>>

zipVars == <<srcTree, hostSep, destOK, zpc, zwalk, zentries, zret>>

jfifVars == <<jdata, jdpi, jout, jpc>>

pngVars == <<pdata, pdpi, pout, pagain, ppc>>

replVars == <<rkind, rpc, rdisk>>

getVars == <<gsince, gresult>>

sniffVars == <<sfile, sext, sopen, spc, sresult>>

crcVars == <<cdata, cout, cpc>>

\* The operations modelled after the ones above, as one group.
cbVars == <<isProcessing, currentJobID, cbpc, cbfmt, cbcalls, cbres>>

latexVars == <<lpass, lpc, lproc, lctx, lapp, lwaitErr, lpdf, lret>>

auxVars == <<crcVars, cbVars, latexVars>>

vars ==
    <<fanVars, logVars, oneVars, decVars, uzVars, zipVars, jfifVars, pngVars, replVars,
      getVars, sniffVars, auxVars>>

\* Each specification below runs one operation; the state of the others
\* stays as these predicates leave it.
IdleFan ==
    /\ tree = <<>> /\ numCPU = 0 /\ imagePaths = <<>> /\ mpc = "idle" /\ workers = 0
    /\ jobs = <<>> /\ jobsClosed = FALSE /\ nextJob = 0 /\ wpc = <<>> /\ widx = <<>>
    /\ wn = <<>> /\ reports = <<>> /\ writes = <<>> /\ processed = 0 /\ disk = <<>>
    /\ ret = [state |-> "idle", reports |-> <<>>, err |-> ""]

IdleOne ==
    /\ file = BaseFile /\ opc = "idle" /\ oreport = NoReport /\ odisk = FreshDisk
    /\ ofull = FALSE

NoConfig == [read |-> FALSE, err |-> FALSE, w |-> 0, h |-> 0]

NoResult == [err |-> "", img |-> NoImage]

IdleDec ==
    /\ dfile = BaseFile /\ dformat = "" /\ dpc = "idle" /\ dcfg = NoConfig
    /\ dresult = NoResult /\ dfull = FALSE

IdleUnzip ==
    /\ archive = <<>> /\ zipOK = FALSE /\ dest = <<>> /\ upc = "idle" /\ uzi = 0
    /\ uzfs = <<>> /\ uzret = ""

IdleZip ==
    /\ srcTree = <<>> /\ hostSep = "" /\ destOK = FALSE /\ zpc = "idle" /\ zwalk = 0 /\ zentries = <<>>
    /\ zret = ""

IdleJFIF == jdata = <<>> /\ jdpi = 0 /\ jout = <<>> /\ jpc = "idle"

IdlePNG == pdata = <<>> /\ pdpi = 0 /\ pout = <<>> /\ pagain = <<>> /\ ppc = "idle"

IdleReplace == rkind = "" /\ rpc = "idle" /\ rdisk = [orig |-> "", tmp |-> "", svg |-> ""]

NoQuery == [lines |-> <<>>, nextSeq |-> -1]

IdleGet == gsince = 0 /\ gresult = NoQuery

IdleCRC == cdata = <<>> /\ cout = <<>> /\ cpc = "idle"

IdleConvert ==
    /\ isProcessing = FALSE /\ currentJobID = "" /\ cbpc = <<>> /\ cbfmt = <<>>
    /\ cbcalls = <<>> /\ cbres = <<>>

IdleLaTeX ==
    /\ lpass = 0 /\ lpc = "idle" /\ lproc = "none" /\ lctx = "nil" /\ lapp = FALSE
    /\ lwaitErr = FALSE /\ lpdf = FALSE /\ lret = "none"

IdleAux == IdleCRC /\ IdleConvert /\ IdleLaTeX

IdleSniff ==
    /\ sfile = <<>> /\ sext = "" /\ sopen = FALSE /\ spc = "idle"
    /\ sresult = [err |-> "", format |-> ""]

NotReturned == [state |-> "running", reports |-> <<>>, err |-> ""]

\* Worker ids; a pool never has more than Min(MaxCPU, MaxFiles, MaxWorkers).
WorkerIds == 1..Min(Min(MaxCPU, MaxFiles), MaxWorkers)

InitFan ==
    /\ tree \in Trees
    /\ numCPU \in 1..MaxCPU
    /\ imagePaths = <<>>
    /\ mpc = "walk"
    /\ workers = 0
    /\ jobs = <<>>
    /\ jobsClosed = FALSE
    /\ nextJob = 1
    /\ wpc = [w \in WorkerIds |-> "unborn"]
    /\ widx = [w \in WorkerIds |-> 0]
    /\ wn = [w \in WorkerIds |-> 0]
    /\ reports = <<>>
    /\ writes = <<>>
    /\ processed = 0
    /\ disk = <<>>
    /\ ret = NotReturned

InitLog ==
    /\ logBuffer = <<>>
    /\ logSeq = 0

\* a.log(msg)
Log(line) ==
    /\ logBuffer' = logAppend(logBuffer, line)
    /\ logSeq' = logSeq + 1

\* The lines the walk logs: one per entry it could not read.
RECURSIVE WalkLog(_, _)
WalkLog(buf, t) ==
    IF t = <<>> THEN buf
    ELSE WalkLog(IF Head(t).ent = "err" THEN logAppend(buf, Line("walk_error", 0)) ELSE buf,
                 Tail(t))

IsDiscovered(e) == e.ent = "file" /\ isImageExt(e.path.ext)

\* The pool size: runtime.NumCPU(), capped by the file count and by 8.
PoolSize(cpus, total) == Min(Min(cpus, total), MaxWorkers)

\* Lines 361-381: the walk; with no image found the call returns (nil, nil).
Discover ==
    /\ mpc = "walk"
    /\ LET found == SelectSeq(tree, IsDiscovered)
           walked == WalkLog(logBuffer, tree)
           nerr == Len(SelectSeq(tree, LAMBDA e : e.ent = "err"))
       IN /\ imagePaths' = found
          /\ disk' = [i \in 1..Len(found) |-> FreshDisk]
          /\ IF Len(found) = 0
             THEN /\ logBuffer' = logAppend(walked, Line("no_images", 0))
                  /\ logSeq' = logSeq + nerr + 1
                  /\ mpc' = "returned"
                  /\ ret' = [state |-> "returned", reports |-> <<>>, err |-> "nil"]
             ELSE /\ logBuffer' = walked
                  /\ logSeq' = logSeq + nerr
                  /\ mpc' = "start"
                  /\ ret' = ret
    /\ UNCHANGED <<tree, numCPU, workers, jobs, jobsClosed, nextJob, wpc, widx, wn,
                   reports, writes, processed>>
    /\ UNCHANGED <<oneVars, decVars, uzVars, zipVars, jfifVars, pngVars,
                   replVars, getVars, sniffVars, auxVars>>

\* Lines 383-412: size the pool, make the results array, start the workers.
StartWorkers ==
    /\ mpc = "start"
    /\ LET total == Len(imagePaths)
           n == PoolSize(numCPU, total)
       IN /\ workers' = n
          /\ reports' = [i \in 1..total |-> NoReport]
          /\ writes' = [i \in 1..total |-> 0]
          /\ wpc' = [w \in WorkerIds |-> IF w <= n THEN "recv" ELSE "unborn"]
          /\ Log(Line("found", total))
    /\ mpc' = "dispatch"
    /\ UNCHANGED <<tree, numCPU, imagePaths, jobs, jobsClosed, nextJob, widx, wn,
                   processed, disk, ret>>
    /\ UNCHANGED <<oneVars, decVars, uzVars, zipVars, jfifVars, pngVars,
                   replVars, getVars, sniffVars, auxVars>>

\* Lines 414-416: jobs <- i, blocking while the buffer (workers*2) is full.
Dispatch ==
    /\ mpc = "dispatch"
    /\ nextJob <= Len(imagePaths)
    /\ Len(jobs) < workers * 2
    /\ jobs' = Append(jobs, nextJob)
    /\ nextJob' = nextJob + 1
    /\ UNCHANGED <<tree, numCPU, imagePaths, mpc, workers, jobsClosed, wpc, widx, wn,
                   reports, writes, processed, disk, ret, logVars>>
    /\ UNCHANGED <<oneVars, decVars, uzVars, zipVars, jfifVars, pngVars,
                   replVars, getVars, sniffVars, auxVars>>

\* The dispatcher going on to wg.Wait() without closing the channel.
CloseJobs_NoClose ==
    /\ mpc = "dispatch"
    /\ nextJob > Len(imagePaths)
    /\ mpc' = "wait"
    /\ UNCHANGED <<tree, numCPU, imagePaths, workers, jobs, jobsClosed, nextJob, wpc, widx,
                   wn, reports, writes, processed, disk, ret, logVars>>
    /\ UNCHANGED <<oneVars, decVars, uzVars, zipVars, jfifVars, pngVars,
                   replVars, getVars, sniffVars, auxVars>>

\* Line 417: close(jobs)
CloseJobs ==
    /\ mpc = "dispatch"
    /\ nextJob > Len(imagePaths)
    /\ jobsClosed' = TRUE
    /\ mpc' = "wait"
    /\ UNCHANGED <<tree, numCPU, imagePaths, workers, jobs, nextJob, wpc, widx, wn,
                   reports, writes, processed, disk, ret, logVars>>
    /\ UNCHANGED <<oneVars, decVars, uzVars, zipVars, jfifVars, pngVars,
                   replVars, getVars, sniffVars, auxVars>>

ReturnValue_FirstError(reps) ==
    IF \E i \in 1..Len(reps) : reps[i].Status \in {"FAILED", "REPLACED"}
    THEN [state |-> "returned", reports |-> <<>>, err |-> "sanitize error"]
    ELSE [state |-> "returned", reports |-> reps, err |-> "nil"]

\* Line 421: return reports, nil
ReturnValue(reps) == [state |-> "returned", reports |-> reps, err |-> "nil"]

\* Lines 418-421: wg.Wait(), the closing log line, return reports, nil.
WaitAndReturn ==
    /\ mpc = "wait"
    /\ \A w \in WorkerIds : wpc[w] \in {"unborn", "exited"}
    /\ Log(Line("done", Len(imagePaths)))
    /\ mpc' = "returned"
    /\ ret' = ReturnValue(reports)
    /\ UNCHANGED <<tree, numCPU, imagePaths, workers, jobs, jobsClosed, nextJob, wpc,
                   widx, wn, reports, writes, processed, disk>>
    /\ UNCHANGED <<oneVars, decVars, uzVars, zipVars, jfifVars, pngVars,
                   replVars, getVars, sniffVars, auxVars>>

Receive_First(q) == [val |-> 1, rest |-> Tail(q)]

\* A receive from the channel: the oldest value sent, which leaves the channel.
Receive(q) == [val |-> Head(q), rest |-> Tail(q)]

\* Line 403: idx := <-jobs
WorkerRecv(w) ==
    /\ wpc[w] = "recv"
    /\ jobs # <<>>
    /\ widx' = [widx EXCEPT ![w] = Receive(jobs).val]
    /\ jobs' = Receive(jobs).rest
    /\ wpc' = [wpc EXCEPT ![w] = "run"]
    /\ UNCHANGED <<tree, numCPU, imagePaths, mpc, workers, jobsClosed, nextJob, wn,
                   reports, writes, processed, disk, ret, logVars>>
    /\ UNCHANGED <<oneVars, decVars, uzVars, zipVars, jfifVars, pngVars,
                   replVars, getVars, sniffVars, auxVars>>

\* Line 403, 402: the range loop ends on the closed, drained channel; wg.Done().
WorkerExit(w) ==
    /\ wpc[w] = "recv"
    /\ jobs = <<>>
    /\ jobsClosed
    /\ wpc' = [wpc EXCEPT ![w] = "exited"]
    /\ UNCHANGED <<tree, numCPU, imagePaths, mpc, workers, jobs, jobsClosed, nextJob,
                   widx, wn, reports, writes, processed, disk, ret, logVars>>
    /\ UNCHANGED <<oneVars, decVars, uzVars, zipVars, jfifVars, pngVars,
                   replVars, getVars, sniffVars, auxVars>>

ReportSlot_CompletionOrder(idx) == processed + 1

\* The slot of the results array a worker holding index idx writes.
ReportSlot(idx) == idx

\* Line 404: reports[idx] = a.sanitizeOne(imagePaths[idx])
WorkerSanitize(w) ==
    /\ wpc[w] = "run"
    /\ LET idx == widx[w]
           res == sanitizeOne(imagePaths[idx], disk[idx])
       IN /\ reports' = [reports EXCEPT ![ReportSlot(idx)] = res.report]
          /\ writes' = [writes EXCEPT ![ReportSlot(idx)] = @ + 1]
          /\ disk' = [disk EXCEPT ![idx] = res.disk]
          /\ logBuffer' = logAll(logBuffer, res.logs)
          /\ logSeq' = logSeq + Len(res.logs)
    /\ wpc' = [wpc EXCEPT ![w] = "count"]
    /\ UNCHANGED <<tree, numCPU, imagePaths, mpc, workers, jobs, jobsClosed, nextJob,
                   widx, wn, processed, ret>>
    /\ UNCHANGED <<oneVars, decVars, uzVars, zipVars, jfifVars, pngVars,
                   replVars, getVars, sniffVars, auxVars>>

\* Line 406: the completions that log a progress line.
ReportsProgress(n, total) == n % ProgressEvery = 0 \/ n = total

\* Line 405: n := processed.Add(1)
WorkerCount(w) ==
    /\ wpc[w] = "count"
    /\ processed' = processed + 1
    /\ wn' = [wn EXCEPT ![w] = processed + 1]
    /\ wpc' = [wpc EXCEPT ![w] =
                 IF ReportsProgress(processed + 1, Len(imagePaths)) THEN "log" ELSE "recv"]
    /\ UNCHANGED <<tree, numCPU, imagePaths, mpc, workers, jobs, jobsClosed, nextJob,
                   widx, reports, writes, disk, ret, logVars>>
    /\ UNCHANGED <<oneVars, decVars, uzVars, zipVars, jfifVars, pngVars,
                   replVars, getVars, sniffVars, auxVars>>

\* Lines 406-409: the progress line.
WorkerLog(w) ==
    /\ wpc[w] = "log"
    /\ Log(Line("progress", wn[w]))
    /\ wpc' = [wpc EXCEPT ![w] = "recv"]
    /\ UNCHANGED <<tree, numCPU, imagePaths, mpc, workers, jobs, jobsClosed, nextJob,
                   widx, wn, reports, writes, processed, disk, ret>>
    /\ UNCHANGED <<oneVars, decVars, uzVars, zipVars, jfifVars, pngVars,
                   replVars, getVars, sniffVars, auxVars>>

NextFan ==
    \/ Discover
    \/ StartWorkers
    \/ Dispatch
    \/ CloseJobs
    \/ WaitAndReturn
    \/ \E w \in WorkerIds : WorkerRecv(w)
    \/ \E w \in WorkerIds : WorkerExit(w)
    \/ \E w \in WorkerIds : WorkerSanitize(w)
    \/ \E w \in WorkerIds : WorkerCount(w)
    \/ \E w \in WorkerIds : WorkerLog(w)

Init ==
    /\ InitFan /\ InitLog
    /\ IdleOne /\ IdleDec /\ IdleUnzip /\ IdleZip /\ IdleJFIF /\ IdlePNG /\ IdleReplace /\ IdleGet
    /\ IdleSniff /\ IdleAux

Next == NextFan

Spec == Init /\ [][Next]_vars

\* ============================================================ a large batch
\* sanitizeAllImages over a directory of BatchFiles clean baseline JPEGs, one
\* more than a multiple of ProgressEvery, so that a completion count that is
\* a multiple of 50 and the count of the last file both occur. The run is
\* taken up where the first BatchDone files have been dispatched, sanitized
\* and counted, all of them by the first worker, and every worker started is
\* back at the receive.
BatchFiles == 51

BatchDone == 48

BatchFile(i) == [BaseFile EXCEPT !.path.name = i]

InitBatch ==
    /\ tree = [i \in 1..BatchFiles |-> BatchFile(i)]
    /\ numCPU \in 1..MaxCPU
    /\ imagePaths = tree
    /\ mpc = "dispatch"
    /\ workers = PoolSize(numCPU, BatchFiles)
    /\ jobs = <<>>
    /\ jobsClosed = FALSE
    /\ nextJob = BatchDone + 1
    /\ wpc = [w \in WorkerIds |-> IF w <= PoolSize(numCPU, BatchFiles) THEN "recv" ELSE "unborn"]
    /\ widx = [w \in WorkerIds |-> IF w = 1 THEN BatchDone ELSE 0]
    /\ wn = [w \in WorkerIds |-> IF w = 1 THEN BatchDone ELSE 0]
    /\ reports = [i \in 1..BatchFiles |->
                    IF i <= BatchDone THEN sanitizeOne(BatchFile(i), FreshDisk).report
                    ELSE NoReport]
    /\ writes = [i \in 1..BatchFiles |-> IF i <= BatchDone THEN 1 ELSE 0]
    /\ processed = BatchDone
    /\ disk = [i \in 1..BatchFiles |->
                 IF i <= BatchDone THEN sanitizeOne(BatchFile(i), FreshDisk).disk
                 ELSE FreshDisk]
    /\ ret = NotReturned
    /\ logBuffer = <<Line("found", BatchFiles)>>
    /\ logSeq = 1

\* The steps of the call from the dispatch loop on.
NextBatch ==
    \/ Dispatch
    \/ CloseJobs
    \/ WaitAndReturn
    \/ \E w \in WorkerIds : WorkerRecv(w)
    \/ \E w \in WorkerIds : WorkerExit(w)
    \/ \E w \in WorkerIds : WorkerSanitize(w)
    \/ \E w \in WorkerIds : WorkerCount(w)
    \/ \E w \in WorkerIds : WorkerLog(w)

InitBatchRun ==
    /\ InitBatch
    /\ IdleOne /\ IdleDec /\ IdleUnzip /\ IdleZip /\ IdleJFIF /\ IdlePNG /\ IdleReplace /\ IdleGet
    /\ IdleSniff /\ IdleAux

SpecBatch == InitBatchRun /\ [][NextBatch]_vars

\* ============================================================ termination
\* sanitizeAllImages over 0 to MaxTermFiles clean baseline JPEGs: with one
\* worker the queue (two slots) is full before the last index is sent.
MaxTermFiles == 3

InitTerm ==
    /\ \E n \in 0..MaxTermFiles : tree = [i \in 1..n |-> BatchFile(i)]
    /\ numCPU \in 1..MaxCPU
    /\ imagePaths = <<>>
    /\ mpc = "walk"
    /\ workers = 0
    /\ jobs = <<>>
    /\ jobsClosed = FALSE
    /\ nextJob = 1
    /\ wpc = [w \in WorkerIds |-> "unborn"]
    /\ widx = [w \in WorkerIds |-> 0]
    /\ wn = [w \in WorkerIds |-> 0]
    /\ reports = <<>>
    /\ writes = <<>>
    /\ processed = 0
    /\ disk = <<>>
    /\ ret = NotReturned

InitTermination ==
    /\ InitTerm /\ InitLog
    /\ IdleOne /\ IdleDec /\ IdleUnzip /\ IdleZip /\ IdleJFIF /\ IdlePNG /\ IdleReplace /\ IdleGet
    /\ IdleSniff /\ IdleAux

\* Every goroutine that can take a step eventually takes one (the Go
\* scheduler preempts), and every call of sanitizeOne returns.
FairFan ==
    /\ WF_vars(Discover) /\ WF_vars(StartWorkers) /\ WF_vars(Dispatch)
    /\ WF_vars(CloseJobs) /\ WF_vars(WaitAndReturn)
    /\ \A w \in WorkerIds :
          /\ WF_vars(WorkerRecv(w)) /\ WF_vars(WorkerExit(w))
          /\ WF_vars(WorkerSanitize(w)) /\ WF_vars(WorkerCount(w))
          /\ WF_vars(WorkerLog(w))

SpecTerm == InitTermination /\ [][NextFan]_vars /\ FairFan

\* ============================================================ sanitizeOne
\* The files one call is checked on: every combination of the extension, the
\* first bytes, the length, the EXIF orientation, the header, the pixel
\* decode, the pixel buffer and the failing I/O step.
HeaderCases ==
    { [cfgErr |-> TRUE, w |-> 0, h |-> 0], [cfgErr |-> FALSE, w |-> 100, h |-> 100],
      [cfgErr |-> FALSE, w |-> 3000, h |-> 100], [cfgErr |-> FALSE, w |-> 60000, h |-> 60000],
      [cfgErr |-> FALSE, w |-> 50000, h |-> 20000], [cfgErr |-> FALSE, w |-> 0, h |-> 10] }

PixelCases ==
    { [decErr |-> TRUE, pix |-> "other", alpha |-> FALSE],
      [decErr |-> FALSE, pix |-> "other", alpha |-> FALSE],
      [decErr |-> FALSE, pix |-> "NRGBA", alpha |-> TRUE],
      [decErr |-> FALSE, pix |-> "RGBA", alpha |-> FALSE] }

ExifCases ==
    { [st |-> "noexif", orient |-> 0], [st |-> "notag", orient |-> 0],
      [st |-> "ok", orient |-> 1], [st |-> "ok", orient |-> 6] }

\* The length of the file and whether its bytes hold a JFIF APP0 segment.
LengthCases ==
    { [size |-> 12, jfif |-> FALSE], [size |-> 64, jfif |-> FALSE],
      [size |-> 64, jfif |-> TRUE] }

\* The failing I/O step of the fast path, of the re-encode and of the
\* placeholder.
IOCases ==
    { [fp |-> "none", re |-> "none", ph |-> "none"],
      [fp |-> "write", re |-> "none", ph |-> "none"],
      [fp |-> "rename", re |-> "none", ph |-> "none"],
      [fp |-> "none", re |-> "create", ph |-> "none"],
      [fp |-> "none", re |-> "write", ph |-> "none"],
      [fp |-> "none", re |-> "rename", ph |-> "none"],
      [fp |-> "write", re |-> "write", ph |-> "none"],
      [fp |-> "none", re |-> "none", ph |-> "write"],
      [fp |-> "none", re |-> "none", ph |-> "remove"],
      [fp |-> "none", re |-> "encode", ph |-> "both"] }

InitOne ==
    /\ \E ext \in {".jpg", ".JPEG", ".png", ".gif"},
          head \in {HeadJPEG, HeadPNG, HeadWEBP, HeadUnknown, HeadOneByte},
          lc \in LengthCases, ex \in ExifCases, hc \in HeaderCases,
          px \in PixelCases, io \in IOCases :
         file = [BaseFile EXCEPT !.path.ext = ext, !.head = head,
                                 !.size = IF Len(head) < 12 THEN Len(head) ELSE lc.size,
                                 !.jfif = lc.jfif, !.exif = ex, !.cfgErr = hc.cfgErr,
                                 !.w = hc.w, !.h = hc.h, !.decErr = px.decErr,
                                 !.pix = px.pix, !.alpha = px.alpha, !.fp = io.fp,
                                 !.re = io.re, !.ph = io.ph]
    /\ opc = "start"
    /\ oreport = NoReport
    /\ odisk = FreshDisk
    /\ ofull = FALSE

\* a.sanitizeOne(path)
SanitizeOneCall ==
    /\ opc = "start"
    /\ LET res == sanitizeOne(file, odisk)
       IN /\ oreport' = res.report
          /\ odisk' = res.disk
          /\ ofull' = res.fullDecode
          /\ logBuffer' = logAll(logBuffer, res.logs)
          /\ logSeq' = logSeq + Len(res.logs)
    /\ opc' = "done"
    /\ UNCHANGED <<file, fanVars, decVars, uzVars, zipVars, jfifVars, pngVars,
                   replVars, getVars, sniffVars, auxVars>>

InitSanitizeOne ==
    /\ InitOne
    /\ IdleFan /\ InitLog /\ IdleDec /\ IdleUnzip /\ IdleZip /\ IdleJFIF /\ IdlePNG /\ IdleReplace /\ IdleGet
    /\ IdleSniff /\ IdleAux

SpecOne == InitSanitizeOne /\ [][SanitizeOneCall]_vars

\* ============================================================ decodeSafe
\* The header dimensions the call is checked on: both sides of every limit.
HeaderDims == {0, 1, 10000, 10001, 50000, 50001, 60000}

InitDec ==
    /\ \E w \in HeaderDims, h \in HeaderDims, ce \in BOOLEAN, de \in BOOLEAN :
         dfile = [BaseFile EXCEPT !.cfgErr = ce, !.w = w, !.h = h, !.decErr = de]
    /\ dformat \in {"jpeg", "png", "gif", "bmp", "tiff", "webp"}
    /\ dpc = "open"
    /\ dcfg = NoConfig
    /\ dresult = NoResult
    /\ dfull = FALSE

\* Lines 649-674: open the file; phase 1, the header-only decode.
DecodeHeader ==
    /\ dpc = "open"
    /\ LET cfg == decodeConfig(dfile, dformat) IN
       /\ dcfg' = [read |-> TRUE, err |-> cfg.err, w |-> cfg.w, h |-> cfg.h]
       /\ IF cfg.err
          THEN dresult' = [err |-> "config", img |-> NoImage] /\ dpc' = "returned"
          ELSE dresult' = dresult /\ dpc' = "check"
    /\ UNCHANGED <<dfile, dformat, dfull>>
    /\ UNCHANGED <<fanVars, logVars, oneVars, uzVars, zipVars, jfifVars, pngVars,
                   replVars, getVars, sniffVars, auxVars>>

\* Lines 676-685: the bounds checks.
DecodeCheck ==
    /\ dpc = "check"
    /\ LET e == checkDimensions(dcfg.w, dcfg.h) IN
       IF e # ""
       THEN dresult' = [err |-> e, img |-> NoImage] /\ dpc' = "returned"
       ELSE dresult' = dresult /\ dpc' = "phase2"
    /\ UNCHANGED <<dfile, dformat, dcfg, dfull>>
    /\ UNCHANGED <<fanVars, logVars, oneVars, uzVars, zipVars, jfifVars, pngVars,
                   replVars, getVars, sniffVars, auxVars>>

\* Lines 687-714: phase 2, seek back and decode the pixels.
DecodePixels ==
    /\ dpc = "phase2"
    /\ dfull' = TRUE
    /\ LET d == decodeFull(dfile, dformat) IN
       dresult' = IF d.err THEN [err |-> "decode", img |-> NoImage]
                  ELSE [err |-> "", img |-> d.img]
    /\ dpc' = "returned"
    /\ UNCHANGED <<dfile, dformat, dcfg>>
    /\ UNCHANGED <<fanVars, logVars, oneVars, uzVars, zipVars, jfifVars, pngVars,
                   replVars, getVars, sniffVars, auxVars>>

NextDec == DecodeHeader \/ DecodeCheck \/ DecodePixels

InitDecode ==
    /\ InitDec
    /\ IdleFan /\ InitLog /\ IdleOne /\ IdleUnzip /\ IdleZip /\ IdleJFIF /\ IdlePNG /\ IdleReplace /\ IdleGet
    /\ IdleSniff /\ IdleAux

SpecDecode == InitDecode /\ [][NextDec]_vars

\* ============================================================ unzipStreaming
\* The entry names an archive is drawn from: files and a directory inside the
\* destination, a file named like that directory, names that climb out of
\* the destination (one of them into a sibling whose name the destination's
\* name begins), and a name that dips into a directory before climbing out.
EntryNames ==
    { <<"a">>, <<"d", "/">>, <<"d", "/", "b">>, <<"d">>,
      <<".", ".", "/", ".", ".", "/", "e">>,
      <<".", ".", "/", "o", "x", "/", "e">>,
      <<"d", "/", ".", ".", "/", ".", ".", "/", "e">> }

\* The entries: every name readable, and one entry whose data cannot be read.
ZipEntries ==
    { [name |-> n, ok |-> TRUE] : n \in EntryNames } \cup { [name |-> <<"c">>, ok |-> FALSE] }

\* The destination roots: an absolute and a relative one.
DestRoots == { <<"/", "w", "/", "o">>, <<"o">> }

InitUnzip ==
    /\ \E n \in 0..MaxEntries : archive \in [1..n -> ZipEntries]
    /\ zipOK \in BOOLEAN
    /\ dest \in DestRoots
    /\ upc = "open"
    /\ uzi = 0
    /\ uzfs \in { <<>>, MkdirAll(<<>>, Clean(dest)) }
    /\ uzret = ""

\* Lines 1019-1023: zip.OpenReader.
UnzipOpen ==
    /\ upc = "open"
    /\ IF zipOK
       THEN upc' = "loop" /\ uzi' = 1 /\ uzret' = uzret
       ELSE upc' = "returned" /\ uzi' = uzi /\ uzret' = "open error"
    /\ UNCHANGED <<archive, zipOK, dest, uzfs>>
    /\ UNCHANGED <<fanVars, logVars, oneVars, decVars, zipVars, jfifVars, pngVars,
                   replVars, getVars, sniffVars, auxVars>>

\* Lines 1025-1031: an entry the zip-slip test rejects is logged and skipped.
UnzipSkip ==
    /\ upc = "loop" /\ uzi <= Len(archive)
    /\ ~SlipCheck(Join(dest, archive[uzi].name), dest)
    /\ Log(Line("skip_dangerous_path", uzi))
    /\ uzi' = uzi + 1
    /\ UNCHANGED <<archive, zipOK, dest, upc, uzfs, uzret>>
    /\ UNCHANGED <<fanVars, oneVars, decVars, zipVars, jfifVars, pngVars,
                   replVars, getVars, sniffVars, auxVars>>

\* Lines 1034-1037: a directory entry.
UnzipDir ==
    /\ upc = "loop" /\ uzi <= Len(archive)
    /\ SlipCheck(Join(dest, archive[uzi].name), dest)
    /\ EntryIsDir(archive[uzi].name)
    /\ uzfs' = MkdirAll(uzfs, Join(dest, archive[uzi].name))
    /\ uzi' = uzi + 1
    /\ UNCHANGED <<archive, zipOK, dest, upc, uzret>>
    /\ UNCHANGED <<fanVars, logVars, oneVars, decVars, zipVars, jfifVars, pngVars,
                   replVars, getVars, sniffVars, auxVars>>

\* What lines 1039-1043 leave: the parents made, the file extracted or the
\* error returned.
AfterExtract(res) ==
    /\ uzfs' = res.fs
    /\ IF res.err
       THEN upc' = "returned" /\ uzret' = "extract error" /\ uzi' = uzi
       ELSE upc' = upc /\ uzret' = uzret /\ uzi' = uzi + 1

\* Lines 1039-1043: a file entry.
UnzipFile ==
    /\ upc = "loop" /\ uzi <= Len(archive)
    /\ SlipCheck(Join(dest, archive[uzi].name), dest)
    /\ ~EntryIsDir(archive[uzi].name)
    /\ AfterExtract(extractFile(archive[uzi],
                                MkdirAll(uzfs, Dir(Join(dest, archive[uzi].name))),
                                Join(dest, archive[uzi].name)))
    /\ UNCHANGED <<archive, zipOK, dest>>
    /\ UNCHANGED <<fanVars, logVars, oneVars, decVars, zipVars, jfifVars, pngVars,
                   replVars, getVars, sniffVars, auxVars>>

\* Line 1045: the loop is over.
UnzipReturn ==
    /\ upc = "loop" /\ uzi > Len(archive)
    /\ upc' = "returned" /\ uzret' = "nil"
    /\ UNCHANGED <<archive, zipOK, dest, uzi, uzfs>>
    /\ UNCHANGED <<fanVars, logVars, oneVars, decVars, zipVars, jfifVars, pngVars,
                   replVars, getVars, sniffVars, auxVars>>

NextUnzip == UnzipOpen \/ UnzipSkip \/ UnzipDir \/ UnzipFile \/ UnzipReturn

InitUnzipStreaming ==
    /\ InitUnzip
    /\ IdleFan /\ InitLog /\ IdleOne /\ IdleDec /\ IdleZip /\ IdleJFIF /\ IdlePNG /\ IdleReplace /\ IdleGet
    /\ IdleSniff /\ IdleAux

SpecUnzip == InitUnzipStreaming /\ [][NextUnzip]_vars

\* ============================================================ zipEPUBStrict
\* One walked entry: its path below srcDir as components, what it is ("dir",
\* "file", or "walkerr" for an entry the walk cannot read), whether os.Open /
\* os.ReadFile can read it, and its bytes as tokens.
TreeEntry(rel, kind, open, data) == [rel |-> rel, kind |-> kind, open |-> open, data |-> data]

DirEntry(rel) == TreeEntry(rel, "dir", TRUE, <<>>)

\* The root mimetype entry of a tree: none, the file (with and without
\* surrounding white space), a file that cannot be read, or a directory of
\* that name.
MimetypeKinds == {"absent", "plain", "spaced", "unreadable", "dir"}

MimetypeEntry(mt) ==
    CASE mt = "absent" -> <<>>
      [] mt = "plain" -> <<TreeEntry(<<"mimetype">>, "file", TRUE, <<"application/epub+zip">>)>>
      [] mt = "spaced" ->
           <<TreeEntry(<<"mimetype">>, "file", TRUE, <<" ", "application/epub+zip", "\r", "\n">>)>>
      [] mt = "unreadable" -> <<TreeEntry(<<"mimetype">>, "file", FALSE, <<"application/epub+zip">>)>>
      [] mt = "dir" -> <<DirEntry(<<"mimetype">>)>>

\* The tree in the order filepath.WalkDir visits it: the root, then the names
\* of each directory in lexical order (META-INF < OEBPS < mimetype).
SrcTree(container, chapter, inner, mt) ==
    <<DirEntry(<<".">>)>>
      \o (IF container
          THEN <<DirEntry(<<"META-INF">>),
                 TreeEntry(<<"META-INF", "container.xml">>, "file", TRUE, <<"container">>)>>
          ELSE <<>>)
      \o (IF chapter # "absent" \/ inner THEN <<DirEntry(<<"OEBPS">>)>> ELSE <<>>)
      \o (IF chapter # "absent"
          THEN <<TreeEntry(<<"OEBPS", "ch1.xhtml">>, "file", chapter = "readable", <<"chapter">>)>>
          ELSE <<>>)
      \o (IF inner
          THEN <<TreeEntry(<<"OEBPS", "mimetype">>, "file", TRUE, <<"inner">>)>>
          ELSE <<>>)
      \o MimetypeEntry(mt)

\* A srcDir that does not exist: the walk reports the root with an error.
MissingTree == <<TreeEntry(<<".">>, "walkerr", FALSE, <<>>)>>

InitZip ==
    /\ \/ \E container, inner \in BOOLEAN, chapter \in {"absent", "readable", "unreadable"},
            mt \in MimetypeKinds : srcTree = SrcTree(container, chapter, inner, mt)
       \/ srcTree = MissingTree
    /\ hostSep \in {"/", "\\"}
    /\ destOK \in BOOLEAN
    /\ zpc = "create"
    /\ zwalk = 0
    /\ zentries = <<>>
    /\ zret = ""

\* Lines 1067-1074: os.Create(destFile).
ZipCreate ==
    /\ zpc = "create"
    /\ IF destOK
       THEN zpc' = "mimetype" /\ zret' = zret
       ELSE zpc' = "returned" /\ zret' = "create error"
    /\ UNCHANGED <<srcTree, hostSep, destOK, zwalk, zentries>>
    /\ UNCHANGED <<fanVars, logVars, oneVars, decVars, uzVars, jfifVars, pngVars,
                   replVars, getVars, sniffVars, auxVars>>

\* os.ReadFile(filepath.Join(srcDir, "mimetype")) succeeds: the tree has a
\* readable file of that name at its root.
ReadMimetype(t) ==
    { t[k].data : k \in { j \in 1..Len(t) :
                             t[j].rel = <<"mimetype">> /\ t[j].kind = "file" /\ t[j].open } }

ZipEntry(name, method, data) == [name |-> name, method |-> method, data |-> data]

\* Lines 1076-1089: the mimetype entry, written when the file could be read.
ZipMimetype ==
    /\ zpc = "mimetype"
    /\ zentries' = IF ReadMimetype(srcTree) # {}
                   THEN <<ZipEntry(<<"mimetype">>, "Store",
                                   TrimSpace(CHOOSE d \in ReadMimetype(srcTree) : TRUE))>>
                   ELSE zentries
    /\ zpc' = "walk" /\ zwalk' = 1
    /\ UNCHANGED <<srcTree, hostSep, destOK, zret>>
    /\ UNCHANGED <<fanVars, logVars, oneVars, decVars, uzVars, jfifVars, pngVars,
                   replVars, getVars, sniffVars, auxVars>>

\* Lines 1096-1097: filepath.Rel, then filepath.ToSlash.
RelSlash(e, sep) == ToSlash(JoinWith(e.rel, sep), sep)

\* Lines 1092-1094: the callback returns walkErr, which ends the walk when
\* it is an error and goes on to the next entry when it is nil.
ZipWalkSkip ==
    /\ zpc = "walk" /\ zwalk <= Len(srcTree)
    /\ srcTree[zwalk].kind = "walkerr" \/ WalkSkips(srcTree[zwalk])
    /\ IF srcTree[zwalk].kind = "walkerr"
       THEN zpc' = "returned" /\ zret' = "walk error" /\ zwalk' = zwalk
       ELSE zpc' = zpc /\ zret' = zret /\ zwalk' = zwalk + 1
    /\ UNCHANGED <<srcTree, hostSep, destOK, zentries>>
    /\ UNCHANGED <<fanVars, logVars, oneVars, decVars, uzVars, jfifVars, pngVars,
                   replVars, getVars, sniffVars, auxVars>>

\* Lines 1096-1121: the header of a Deflate entry is written, then the file
\* is opened and copied; an open error leaves the header and ends the walk.
ZipWalkFile ==
    /\ zpc = "walk" /\ zwalk <= Len(srcTree)
    /\ srcTree[zwalk].kind # "walkerr" /\ ~WalkSkips(srcTree[zwalk])
    /\ IF srcTree[zwalk].open
       THEN /\ zentries' = Append(zentries, ZipEntry(RelSlash(srcTree[zwalk], hostSep),
                                                      "Deflate", srcTree[zwalk].data))
            /\ zpc' = zpc /\ zret' = zret /\ zwalk' = zwalk + 1
       ELSE /\ zentries' = Append(zentries, ZipEntry(RelSlash(srcTree[zwalk], hostSep),
                                                      "Deflate", <<>>))
            /\ zpc' = "returned" /\ zret' = "open error" /\ zwalk' = zwalk
    /\ UNCHANGED <<srcTree, hostSep, destOK>>
    /\ UNCHANGED <<fanVars, logVars, oneVars, decVars, uzVars, jfifVars, pngVars,
                   replVars, getVars, sniffVars, auxVars>>

\* The walk is over: filepath.WalkDir returns nil.
ZipReturn ==
    /\ zpc = "walk" /\ zwalk > Len(srcTree)
    /\ zpc' = "returned" /\ zret' = "nil"
    /\ UNCHANGED <<srcTree, hostSep, destOK, zwalk, zentries>>
    /\ UNCHANGED <<fanVars, logVars, oneVars, decVars, uzVars, jfifVars, pngVars,
                   replVars, getVars, sniffVars, auxVars>>

NextZip == ZipCreate \/ ZipMimetype \/ ZipWalkSkip \/ ZipWalkFile \/ ZipReturn

InitZipEPUBStrict ==
    /\ InitZip
    /\ IdleFan /\ InitLog /\ IdleOne /\ IdleDec /\ IdleUnzip /\ IdleJFIF /\ IdlePNG /\ IdleReplace /\ IdleGet
    /\ IdleSniff /\ IdleAux

SpecZip == InitZipEPUBStrict /\ [][NextZip]_vars

\* ============================================================ injectJFIFDPI
\* The pieces an input is put together from: the SOI marker, a JFIF APP0
\* segment (units 0, 72 x 72), the same segment cut one and two bytes short,
\* its first nine bytes alone, an APP1 stub, the header of an APP1 segment
\* whose 18 bytes of data are the block that follows it (an embedded
\* thumbnail's), the EOI marker, a single byte and sixteen bytes of
\* entropy-coded data.
JFIFSegment == <<255, 224, 0, 16>> \o B_JFIF0 \o <<1, 1, 0, 0, 72, 0, 72, 0, 0>>

JPEGBlocks ==
    { <<255, 216>>, JFIFSegment, Slice(JFIFSegment, 0, 17), Slice(JFIFSegment, 0, 16),
      Slice(JFIFSegment, 0, 9), <<255, 225, 0, 4, 69, 120>>, <<255, 225, 0, 20>>,
      <<255, 217>>, <<0>>,
      <<1, 2, 3, 4, 5, 6, 7, 8, 9, 10, 11, 12, 13, 14, 15, 16>> }

\* The concatenation of a sequence of byte sequences.
RECURSIVE Concat(_)
Concat(blocks) == IF blocks = <<>> THEN <<>> ELSE Head(blocks) \o Concat(Tail(blocks))

InitJFIF ==
    /\ \E n \in 0..MaxBlocks : \E blocks \in [1..n -> JPEGBlocks] : jdata = Concat(blocks)
    /\ jdpi \in {TargetDPI, 300}
    /\ jout = <<>>
    /\ jpc = "start"

\* data = injectJFIFDPI(data, dpi)
InjectJFIFCall ==
    /\ jpc = "start"
    /\ jout' = injectJFIFDPI(jdata, jdpi)
    /\ jpc' = "done"
    /\ UNCHANGED <<jdata, jdpi>>
    /\ UNCHANGED <<fanVars, logVars, oneVars, decVars, uzVars, zipVars, pngVars,
                   replVars, getVars, sniffVars, auxVars>>

InitInjectJFIF ==
    /\ InitJFIF
    /\ IdleFan /\ InitLog /\ IdleOne /\ IdleDec /\ IdleUnzip /\ IdleZip /\ IdlePNG /\ IdleReplace /\ IdleGet
    /\ IdleSniff /\ IdleAux

SpecJFIF == InitInjectJFIF /\ [][InjectJFIFCall]_vars

\* ============================================================ injectPNGpHYs
\* A chunk: length, type, data and the CRC over type and data.
Chunk(type, data) == U32(Len(data)) \o type \o data \o crc32PNG(type \o data)

PNGSignature == <<137>> \o B_PNG \o <<13, 10, 26, 10>>

\* The chunks an input is put together from: the IHDR of a 1x1 RGBA image, an
\* IDAT, an IDAT whose data holds the bytes of a whole pHYs chunk, a pHYs
\* chunk (2835 pixels per metre), a pHYs chunk of eight data bytes, IEND, and
\* a chunk whose length runs past the end of the data.
PNGBlocks ==
    { Chunk(B_IHDR, <<0, 0, 0, 1, 0, 0, 0, 1, 8, 6, 0, 0, 0>>),
      Chunk(B_IDAT, <<120, 156>>),
      Chunk(B_IDAT, NewPhys(2835)),
      NewPhys(2835),
      Chunk(B_pHYs, <<0, 0, 11, 19, 0, 0, 11, 19>>),
      Chunk(B_IEND, <<>>),
      U32(100) \o B_IDAT \o <<1, 2, 3, 4>> }

InitPNG ==
    /\ \E n \in 0..MaxChunks : \E blocks \in [1..n -> PNGBlocks] :
          pdata = PNGSignature \o Concat(blocks)
    /\ pdpi \in {TargetDPI, 300}
    /\ pout = <<>>
    /\ pagain = <<>>
    /\ ppc = "start"

\* data := injectPNGpHYs(buf.Bytes(), dpi)
InjectPNGCall ==
    /\ ppc = "start"
    /\ pout' = injectPNGpHYs(pdata, pdpi)
    /\ ppc' = "done"
    /\ UNCHANGED <<pdata, pdpi, pagain>>
    /\ UNCHANGED <<fanVars, logVars, oneVars, decVars, uzVars, zipVars, jfifVars,
                   replVars, getVars, sniffVars, auxVars>>

\* injectPNGpHYs(data, dpi) called on the bytes the first call returned.
InjectPNGAgain ==
    /\ ppc = "done"
    /\ pagain' = injectPNGpHYs(pout, pdpi)
    /\ ppc' = "again"
    /\ UNCHANGED <<pdata, pdpi, pout>>
    /\ UNCHANGED <<fanVars, logVars, oneVars, decVars, uzVars, zipVars, jfifVars,
                   replVars, getVars, sniffVars, auxVars>>

NextPNG == InjectPNGCall \/ InjectPNGAgain

InitInjectPNG ==
    /\ InitPNG
    /\ IdleFan /\ InitLog /\ IdleOne /\ IdleDec /\ IdleUnzip /\ IdleZip /\ IdleJFIF /\ IdleReplace /\ IdleGet
    /\ IdleSniff /\ IdleAux

SpecPNG == InitInjectPNG /\ [][NextPNG]_vars

\* ============================================================ crc32PNG
\* The byte strings one call is checked on: every string of at most
\* MaxCRCLen bytes over CRCBytes, the ASCII digits 1 to 9, and the chunk type
\* IEND with no data.
MaxCRCLen == 3

CRCBytes == {0, 1, 73, 128, 255}

Digits1To9 == <<49, 50, 51, 52, 53, 54, 55, 56, 57>>

CRCInputs ==
    UNION { [1..n -> CRCBytes] : n \in 0..MaxCRCLen } \cup {Digits1To9, B_IEND}

\* The PNG streams the chunk's CRC is checked on: one without a pHYs chunk
\* and one with.
CRCStreams ==
    { PNGSignature \o Chunk(B_IHDR, <<0, 0, 0, 1, 0, 0, 0, 1, 8, 6, 0, 0, 0>>)
        \o Chunk(B_IEND, <<>>),
      PNGSignature \o Chunk(B_IHDR, <<0, 0, 0, 1, 0, 0, 0, 1, 8, 6, 0, 0, 0>>)
        \o NewPhys(2835) \o Chunk(B_IEND, <<>>) }

InitCRC ==
    /\ cdata \in CRCInputs
    /\ cout = <<>>
    /\ cpc = "start"
    /\ pdata \in CRCStreams
    /\ pdpi \in {TargetDPI, 300}
    /\ pout = <<>>
    /\ pagain = <<>>
    /\ ppc = "start"

\* crc := crc32PNG(data)
CRCCall ==
    /\ cpc = "start"
    /\ cout' = crc32PNG(cdata)
    /\ cpc' = "done"
    /\ UNCHANGED <<cdata>>
    /\ UNCHANGED <<fanVars, logVars, oneVars, decVars, uzVars, zipVars, jfifVars,
                   pngVars, replVars, getVars, sniffVars, cbVars, latexVars>>

NextCRC == CRCCall \/ InjectPNGCall

InitCRC32PNG ==
    /\ InitCRC
    /\ IdleFan /\ InitLog /\ IdleOne /\ IdleDec /\ IdleUnzip /\ IdleZip /\ IdleJFIF
    /\ IdleReplace /\ IdleGet /\ IdleSniff /\ IdleConvert /\ IdleLaTeX

SpecCRC == InitCRC32PNG /\ [][NextCRC]_vars

\* ============================================================ ConvertBook
\* Concurrent calls of ConvertBook: MaxCallers callers (the frontend's
\* bindings run each call on its own goroutine), each making at most MaxCalls
\* calls one after the other. The steps keep to the flag, the job id and the
\* result: the lines a call logs through a.log, a.progress and a.fail go to
\* the log buffer under its own mutex (Log above) and the events it emits go
\* to the frontend; neither is read by ConvertBook.
MaxCallers == 2

MaxCalls == 2

Callers == 1..MaxCallers

\* The stages of a call that is past the isProcessing guard.
InsideStages == {"validate", "workspace", "pdf", "markdown", "final"}

\* fail(jobID, msg): the result.
fail(jobID, msg) ==
    [JobID |-> jobID, Stage |-> "error", IsError |-> TRUE, IsComplete |-> TRUE,
     Message |-> msg, OutputPath |-> "", PDFPath |-> "", MarkdownPath |-> ""]

NoProgress ==
    [JobID |-> "", Stage |-> "", IsError |-> FALSE, IsComplete |-> FALSE, Message |-> "",
     OutputPath |-> "", PDFPath |-> "", MarkdownPath |-> ""]

\* Lines 278-282: which pipelines the outputFormat argument asks for.
wantPDF(fmt) == fmt \in {"pdf", "both", "all"} \/ fmt \notin {"md", "markdown"}

wantMD(fmt) == fmt \in {"md", "markdown", "both", "all"}

InitConvert ==
    /\ isProcessing = FALSE
    /\ currentJobID = ""
    /\ cbpc = [c \in Callers |-> "idle"]
    /\ cbfmt = [c \in Callers |-> ""]
    /\ cbcalls = [c \in Callers |-> 0]
    /\ cbres = [c \in Callers |-> NoProgress]

\* A call returns result res; the deferred a.isProcessing.Store(false) of
\* line 270 runs on the way out, and the argument goes with the call.
ConvertReturn(c, res) ==
    /\ cbres' = [cbres EXCEPT ![c] = res]
    /\ cbfmt' = [cbfmt EXCEPT ![c] = ""]
    /\ cbpc' = [cbpc EXCEPT ![c] = "returned"]
    /\ isProcessing' = FALSE

\* Lines 267-268 with the flag set: the compare-and-swap fails and the call
\* returns a.fail("", ...) at once, the deferred store not yet registered;
\* the flag is cleared as well.
ConvertBusy_ClearsFlag(c) ==
    /\ cbpc[c] \in {"idle", "returned"} /\ cbcalls[c] < MaxCalls
    /\ isProcessing
    /\ cbcalls' = [cbcalls EXCEPT ![c] = @ + 1]
    /\ ConvertReturn(c, fail("", "busy"))
    /\ UNCHANGED <<currentJobID>>
    /\ UNCHANGED <<fanVars, logVars, oneVars, decVars, uzVars, zipVars, jfifVars, pngVars,
                   replVars, getVars, sniffVars, crcVars, latexVars>>

\* Lines 267-268 with the flag set: the compare-and-swap fails and the call
\* returns a.fail("", ...) at once, the deferred store not yet registered.
ConvertBusy(c) ==
    /\ cbpc[c] \in {"idle", "returned"} /\ cbcalls[c] < MaxCalls
    /\ isProcessing
    /\ cbcalls' = [cbcalls EXCEPT ![c] = @ + 1]
    /\ cbres' = [cbres EXCEPT ![c] = fail("", "busy")]
    /\ cbpc' = [cbpc EXCEPT ![c] = "returned"]
    /\ UNCHANGED <<isProcessing, currentJobID, cbfmt>>
    /\ UNCHANGED <<fanVars, logVars, oneVars, decVars, uzVars, zipVars, jfifVars, pngVars,
                   replVars, getVars, sniffVars, crcVars, latexVars>>

\* Lines 267-285 with the flag clear: the compare-and-swap sets it, the
\* store is deferred, the job id is taken and the first lines are logged.
ConvertEnter(c) ==
    /\ cbpc[c] \in {"idle", "returned"} /\ cbcalls[c] < MaxCalls
    /\ ~isProcessing
    /\ isProcessing' = TRUE
    /\ \E f \in {"pdf", "md", "both"} : cbfmt' = [cbfmt EXCEPT ![c] = f]
    /\ cbcalls' = [cbcalls EXCEPT ![c] = @ + 1]
    /\ currentJobID' = "job"
    /\ cbres' = [cbres EXCEPT ![c] = [NoProgress EXCEPT !.JobID = "job"]]
    /\ cbpc' = [cbpc EXCEPT ![c] = "validate"]
    /\ UNCHANGED <<fanVars, logVars, oneVars, decVars, uzVars, zipVars, jfifVars, pngVars,
                   replVars, getVars, sniffVars, crcVars, latexVars>>

\* Lines 287-295: os.Stat of the input and the .epub suffix test.
ConvertValidate(c) ==
    /\ cbpc[c] = "validate"
    /\ \E ok \in BOOLEAN :
         IF ok
         THEN /\ cbpc' = [cbpc EXCEPT ![c] = "workspace"]
              /\ UNCHANGED <<isProcessing, cbres, cbfmt>>
         ELSE ConvertReturn(c, fail("job", "input"))
    /\ UNCHANGED <<currentJobID, cbcalls>>
    /\ UNCHANGED <<fanVars, logVars, oneVars, decVars, uzVars, zipVars, jfifVars, pngVars,
                   replVars, getVars, sniffVars, crcVars, latexVars>>

\* Lines 297-307: os.MkdirTemp; the cleanup is deferred once it succeeded.
ConvertWorkspace(c) ==
    /\ cbpc[c] = "workspace"
    /\ \E ok \in BOOLEAN :
         IF ok
         THEN /\ cbpc' = [cbpc EXCEPT ![c] =
                            IF wantPDF(cbfmt[c]) THEN "pdf"
                            ELSE IF wantMD(cbfmt[c]) THEN "markdown" ELSE "final"]
              /\ UNCHANGED <<isProcessing, cbres, cbfmt>>
         ELSE ConvertReturn(c, fail("job", "workspace"))
    /\ UNCHANGED <<currentJobID, cbcalls>>
    /\ UNCHANGED <<fanVars, logVars, oneVars, decVars, uzVars, zipVars, jfifVars, pngVars,
                   replVars, getVars, sniffVars, crcVars, latexVars>>

\* Lines 310-327: the PDF pipeline; it fails when toPDFOptimized fails, when
\* the PDF is missing or when it is under 1024 bytes.
ConvertPDF(c) ==
    /\ cbpc[c] = "pdf"
    /\ \E ok \in BOOLEAN :
         IF ok
         THEN /\ cbpc' = [cbpc EXCEPT ![c] =
                            IF wantMD(cbfmt[c]) THEN "markdown" ELSE "final"]
              /\ cbres' = [cbres EXCEPT ![c].PDFPath = "pdf"]
              /\ UNCHANGED <<isProcessing, cbfmt>>
         ELSE ConvertReturn(c, fail("job", "pdf"))
    /\ UNCHANGED <<currentJobID, cbcalls>>
    /\ UNCHANGED <<fanVars, logVars, oneVars, decVars, uzVars, zipVars, jfifVars, pngVars,
                   replVars, getVars, sniffVars, crcVars, latexVars>>

\* Lines 329-339: the Markdown pipeline; its failure is not fatal, the path
\* is recorded when it succeeds.
ConvertMarkdown(c) ==
    /\ cbpc[c] = "markdown"
    /\ \E ok \in BOOLEAN :
         cbres' = [cbres EXCEPT ![c].MarkdownPath = IF ok THEN "md" ELSE @]
    /\ cbpc' = [cbpc EXCEPT ![c] = "final"]
    /\ UNCHANGED <<isProcessing, currentJobID, cbfmt, cbcalls>>
    /\ UNCHANGED <<fanVars, logVars, oneVars, decVars, uzVars, zipVars, jfifVars, pngVars,
                   replVars, getVars, sniffVars, crcVars, latexVars>>

\* Lines 341-353: the successful return.
ConvertFinal(c) ==
    /\ cbpc[c] = "final"
    /\ ConvertReturn(c, [cbres[c] EXCEPT
                            !.OutputPath = IF cbres[c].PDFPath # "" THEN cbres[c].PDFPath
                                           ELSE cbres[c].MarkdownPath,
                            !.Stage = "complete", !.IsComplete = TRUE,
                            !.Message = "done"])
    /\ UNCHANGED <<currentJobID, cbcalls>>
    /\ UNCHANGED <<fanVars, logVars, oneVars, decVars, uzVars, zipVars, jfifVars, pngVars,
                   replVars, getVars, sniffVars, crcVars, latexVars>>

NextConvert ==
    \/ \E c \in Callers : ConvertBusy(c)
    \/ \E c \in Callers : ConvertEnter(c)
    \/ \E c \in Callers : ConvertValidate(c)
    \/ \E c \in Callers : ConvertWorkspace(c)
    \/ \E c \in Callers : ConvertPDF(c)
    \/ \E c \in Callers : ConvertMarkdown(c)
    \/ \E c \in Callers : ConvertFinal(c)

InitConvertBook ==
    /\ InitConvert /\ InitLog
    /\ IdleFan /\ IdleOne /\ IdleDec /\ IdleUnzip /\ IdleZip /\ IdleJFIF /\ IdlePNG
    /\ IdleReplace /\ IdleGet /\ IdleSniff /\ IdleCRC /\ IdleLaTeX

SpecConvert == InitConvertBook /\ [][NextConvert]_vars

\* ============================================================ runLaTeX
\* One call of runLaTeX: two compilation passes, each a child process with a
\* reader goroutine and a watchdog goroutine. Time is kept as what the
\* watchdog and the context see of it: the process is putting out output or
\* has been silent for longer than stallTimeout, and the per-pass deadline
\* has passed or not. The page lines of the reader and the watchdog's
\* silence warnings, which repeat without bound, are left out of the log.
MaxPasses == 2

InitLaTeX ==
    /\ lpass = 1
    /\ lpc = "stat"
    /\ lproc = "none"
    /\ lctx = "nil"
    /\ lapp = FALSE
    /\ lwaitErr = FALSE
    /\ lpdf = FALSE
    /\ lret = "none"

\* Lines 1422-1445: os.Stat of the .tex file, the timeouts, the log line.
LatexStat ==
    /\ lpc = "stat"
    /\ \E ok \in BOOLEAN :
         IF ok
         THEN /\ lpc' = "start" /\ lret' = lret
              /\ Log(Line("latex_timeouts", 0))
         ELSE /\ lpc' = "returned" /\ lret' = "error"
              /\ UNCHANGED logVars
    /\ UNCHANGED <<lpass, lproc, lctx, lapp, lwaitErr, lpdf>>
    /\ UNCHANGED <<fanVars, oneVars, decVars, uzVars, zipVars, jfifVars, pngVars,
                   replVars, getVars, sniffVars, crcVars, cbVars>>

\* Lines 1447-1498: the lines of the pass, the context with the per-pass
\* deadline, the command, its pipe and its start; a failing pipe or start
\* returns the error.
LatexStartPass ==
    /\ lpc = "start"
    /\ logBuffer' = logAll(logBuffer,
                           <<Line("latex_pass", lpass),
                             Line(IF lpass = 1 THEN "latex_draft" ELSE "latex_full", lpass),
                             Line("latex_progress", lpass)>>)
    /\ logSeq' = logSeq + 3
    /\ \E ok \in BOOLEAN :
         IF ok
         THEN /\ lpc' = "running" /\ lproc' = "active" /\ lctx' = "nil" /\ lret' = lret
         ELSE /\ lpc' = "returned" /\ lproc' = lproc /\ lctx' = "Canceled"
              /\ lret' = "error"
    /\ lwaitErr' = FALSE
    /\ lpdf' = FALSE
    /\ UNCHANGED <<lpass, lapp>>
    /\ UNCHANGED <<fanVars, oneVars, decVars, uzVars, zipVars, jfifVars, pngVars,
                   replVars, getVars, sniffVars, crcVars, cbVars>>

\* The process has put out nothing for longer than stallTimeout.
ProcStall ==
    /\ lpc = "running" /\ lproc = "active"
    /\ lproc' = "stalled"
    /\ UNCHANGED <<lpass, lpc, lctx, lapp, lwaitErr, lpdf, lret, logVars>>
    /\ UNCHANGED <<fanVars, oneVars, decVars, uzVars, zipVars, jfifVars, pngVars,
                   replVars, getVars, sniffVars, crcVars, cbVars>>

\* Lines 1509-1513: the reader gets a chunk and stores the time in
\* lastActivity before the watchdog's next tick.
ProcOutput ==
    /\ lpc = "running" /\ lproc = "stalled"
    /\ lproc' = "active"
    /\ UNCHANGED <<lpass, lpc, lctx, lapp, lwaitErr, lpdf, lret, logVars>>
    /\ UNCHANGED <<fanVars, oneVars, decVars, uzVars, zipVars, jfifVars, pngVars,
                   replVars, getVars, sniffVars, crcVars, cbVars>>

\* cancel(): the context's error becomes Canceled unless it is already set.
cancel(e) == IF e = "nil" THEN "Canceled" ELSE e

\* Lines 1550-1559: a tick of the watchdog finds the process silent for
\* longer than stallTimeout: it logs the stall, calls cancel() and returns;
\* exec.CommandContext kills the process.
WatchdogCancel ==
    /\ lpc = "running" /\ lproc = "stalled"
    /\ Log(Line("latex_stall", lpass))
    /\ lctx' = cancel(lctx)
    /\ lproc' = "killed"
    /\ lwaitErr' = TRUE
    /\ \E pdf \in BOOLEAN : lpdf' = (lpass > 1 /\ pdf)
    /\ UNCHANGED <<lpass, lpc, lapp, lret>>
    /\ UNCHANGED <<fanVars, oneVars, decVars, uzVars, zipVars, jfifVars, pngVars,
                   replVars, getVars, sniffVars, crcVars, cbVars>>

\* The per-pass deadline of context.WithTimeout passes; the process is
\* killed.
DeadlinePasses ==
    /\ lpc = "running" /\ lproc \in {"active", "stalled"} /\ lctx = "nil"
    /\ lctx' = "DeadlineExceeded"
    /\ lproc' = "killed"
    /\ lwaitErr' = TRUE
    /\ \E pdf \in BOOLEAN : lpdf' = (lpass > 1 /\ pdf)
    /\ UNCHANGED <<lpass, lpc, lapp, lret, logVars>>
    /\ UNCHANGED <<fanVars, oneVars, decVars, uzVars, zipVars, jfifVars, pngVars,
                   replVars, getVars, sniffVars, crcVars, cbVars>>

\* The application shuts down: a.ctx is cancelled and with it the derived
\* context; the process is killed.
AppShutdown ==
    /\ lpc = "running" /\ lproc \in {"active", "stalled"} /\ ~lapp
    /\ lapp' = TRUE
    /\ lctx' = cancel(lctx)
    /\ lproc' = "killed"
    /\ lwaitErr' = TRUE
    /\ \E pdf \in BOOLEAN : lpdf' = (lpass > 1 /\ pdf)
    /\ UNCHANGED <<lpass, lpc, lret, logVars>>
    /\ UNCHANGED <<fanVars, oneVars, decVars, uzVars, zipVars, jfifVars, pngVars,
                   replVars, getVars, sniffVars, crcVars, cbVars>>

\* The process exits by itself, with or without an error; a full pass may
\* have left output.pdf of more than 1024 bytes, a draft pass leaves none.
ProcExit ==
    /\ lpc = "running" /\ lproc \in {"active", "stalled"}
    /\ lproc' = "exited"
    /\ \E err \in BOOLEAN : lwaitErr' = err
    /\ \E pdf \in BOOLEAN : lpdf' = (lpass > 1 /\ pdf)
    /\ UNCHANGED <<lpass, lpc, lctx, lapp, lret, logVars>>
    /\ UNCHANGED <<fanVars, oneVars, decVars, uzVars, zipVars, jfifVars, pngVars,
                   replVars, getVars, sniffVars, crcVars, cbVars>>

\* Lines 1580-1610: what the pass comes to once cmd.Wait, the reader and the
\* watchdog are done: "error" for a return of an error, "continue" for the
\* next turn of the loop.
PassOutcome(pass, ctxErr, appDown, pdf, waitErr) ==
    IF ctxErr = "DeadlineExceeded" THEN "error"
    ELSE IF appDown THEN "error"
    ELSE IF pass = 1 THEN "continue"
    ELSE IF pdf THEN "continue"
    ELSE IF waitErr THEN "error"
    ELSE "continue"

\* The lines logged on the way: the count of non-fatal errors when the
\* output holds error lines (errs), or the process's output before the
\* failure return.
PassLines(pass, outcome, pdf, waitErr, errs) ==
    IF outcome = "error"
    THEN (IF pass > 1 /\ ~pdf /\ waitErr THEN <<Line("latex_output", pass)>> ELSE <<>>)
    ELSE IF (pass = 1 \/ pdf) /\ errs THEN <<Line("latex_errors", pass)>> ELSE <<>>

\* Lines 1572-1614: cmd.Wait() returns, the reader and the watchdog are
\* done, cancel() is called, and the pass is judged; after the last pass the
\* loop ends and runLaTeX returns nil.
LatexWait ==
    /\ lpc = "running" /\ lproc \in {"exited", "killed"}
    /\ \E errs \in BOOLEAN :
         LET outcome == PassOutcome(lpass, lctx, lapp, lpdf, lwaitErr)
             lines == PassLines(lpass, outcome, lpdf, lwaitErr, errs)
         IN /\ logBuffer' = logAll(logBuffer, lines)
            /\ logSeq' = logSeq + Len(lines)
            /\ IF outcome = "error"
               THEN lpc' = "returned" /\ lret' = "error" /\ lpass' = lpass
               ELSE IF lpass < MaxPasses
               THEN lpc' = "start" /\ lret' = lret /\ lpass' = lpass + 1
               ELSE lpc' = "returned" /\ lret' = "nil" /\ lpass' = lpass
    /\ lctx' = cancel(lctx)
    /\ UNCHANGED <<lproc, lapp, lwaitErr, lpdf>>
    /\ UNCHANGED <<fanVars, oneVars, decVars, uzVars, zipVars, jfifVars, pngVars,
                   replVars, getVars, sniffVars, crcVars, cbVars>>

NextLaTeX ==
    \/ LatexStat
    \/ LatexStartPass
    \/ ProcStall
    \/ ProcOutput
    \/ WatchdogCancel
    \/ DeadlinePasses
    \/ AppShutdown
    \/ ProcExit
    \/ LatexWait

InitRunLaTeX ==
    /\ InitLaTeX /\ InitLog
    /\ IdleFan /\ IdleOne /\ IdleDec /\ IdleUnzip /\ IdleZip /\ IdleJFIF /\ IdlePNG
    /\ IdleReplace /\ IdleGet /\ IdleSniff /\ IdleCRC /\ IdleConvert

SpecLaTeX == InitRunLaTeX /\ [][NextLaTeX]_vars

\* ============================================================ replacement
\* One file's replacement on disk, one I/O call at a time. rdisk gives what
\* is at the original path (orig), at the sibling temp path (tmp) and at the
\* placeholder's path (svg): "absent", "empty", "partial" (some of the new
\* bytes), "new" (all of the new bytes), "original", or "placeholder".
\* Every I/O call either succeeds or fails.
tmpPath_SamePath(path) == path

\* tmpPath := path + ".athanor_tmp"
tmpPath(path) == IF path = "orig" THEN "tmp" ELSE path

\* os.Create, and the open of os.WriteFile: the file exists and is empty.
Create(d, p) == [d EXCEPT ![p] = "empty"]

\* A write that fails part of the way, and one that completes.
WriteSome(d, p) == [d EXCEPT ![p] = "partial"]

WriteAll(d, p) == [d EXCEPT ![p] = "new"]

\* os.Rename: what is at from is at to, in one step.
Rename(d, from, to) ==
    IF from = to THEN d ELSE [d EXCEPT ![to] = d[from], ![from] = "absent"]

Remove(d, p) == [d EXCEPT ![p] = "absent"]

\* The temp path may hold what an earlier, interrupted run left there.
InitReplace ==
    /\ rkind \in {"fast", ".jpg", ".png"}
    /\ rpc = IF rkind = "fast" THEN "fp_read" ELSE "decode"
    /\ \E left \in {"absent", "empty", "partial", "new"} :
          rdisk = [orig |-> "original", tmp |-> left, svg |-> "absent"]

\* tryFastPath, lines 517-520: os.ReadFile(path).
FastRead ==
    /\ rpc = "fp_read"
    /\ \E ok \in BOOLEAN :
          /\ rpc' = IF ok THEN "fp_open" ELSE "decode"
          /\ rdisk' = rdisk
    /\ UNCHANGED rkind
    /\ UNCHANGED <<fanVars, logVars, oneVars, decVars, uzVars, zipVars, jfifVars, pngVars,
                   getVars, sniffVars, auxVars>>

\* Line 526, os.WriteFile(tmpPath, ...): the file is created or truncated.
FastOpen ==
    /\ rpc = "fp_open"
    /\ \E ok \in BOOLEAN :
          /\ rpc' = IF ok THEN "fp_write" ELSE "decode"
          /\ rdisk' = IF ok THEN Create(rdisk, tmpPath("orig"))
                    ELSE rdisk
    /\ UNCHANGED rkind
    /\ UNCHANGED <<fanVars, logVars, oneVars, decVars, uzVars, zipVars, jfifVars, pngVars,
                   getVars, sniffVars, auxVars>>

\* Line 526, os.WriteFile(tmpPath, ...): the bytes are written.
FastWrite ==
    /\ rpc = "fp_write"
    /\ \E ok \in BOOLEAN :
          /\ rpc' = IF ok THEN "fp_rename" ELSE "decode"
          /\ rdisk' = IF ok THEN WriteAll(rdisk, tmpPath("orig"))
                    ELSE WriteSome(rdisk, tmpPath("orig"))
    /\ UNCHANGED rkind
    /\ UNCHANGED <<fanVars, logVars, oneVars, decVars, uzVars, zipVars, jfifVars, pngVars,
                   getVars, sniffVars, auxVars>>

\* Lines 529-532: os.Rename(tmpPath, path), and os.Remove(tmpPath) when it
\* fails (the removal can fail as well).
FastRename ==
    /\ rpc = "fp_rename"
    /\ \E ok \in BOOLEAN, removed \in BOOLEAN :
          /\ rpc' = IF ok THEN "replaced" ELSE "decode"
          /\ rdisk' = IF ok THEN Rename(rdisk, tmpPath("orig"), "orig")
                    ELSE IF removed THEN Remove(rdisk, tmpPath("orig")) ELSE rdisk
    /\ UNCHANGED rkind
    /\ UNCHANGED <<fanVars, logVars, oneVars, decVars, uzVars, zipVars, jfifVars, pngVars,
                   getVars, sniffVars, auxVars>>

\* sanitizeOne, lines 437-459: the sniff and the decode read the file only.
ReplaceDecode ==
    /\ rpc = "decode"
    /\ \E ok \in BOOLEAN :
          /\ rpc' = IF ok THEN "re_create" ELSE "placeholder"
          /\ rdisk' = rdisk
    /\ UNCHANGED rkind
    /\ UNCHANGED <<fanVars, logVars, oneVars, decVars, uzVars, zipVars, jfifVars, pngVars,
                   getVars, sniffVars, auxVars>>

\* saveJPEGWithDPI / savePNGWithDPI: os.Create(tmpPath).
ReCreate ==
    /\ rpc = "re_create"
    /\ \E ok \in BOOLEAN :
          /\ rpc' = IF ok THEN "re_encode" ELSE "placeholder"
          /\ rdisk' = IF ok THEN Create(rdisk, tmpPath("orig"))
                    ELSE rdisk
    /\ UNCHANGED rkind
    /\ UNCHANGED <<fanVars, logVars, oneVars, decVars, uzVars, zipVars, jfifVars, pngVars,
                   getVars, sniffVars, auxVars>>

\* The encode into the memory buffer.
ReEncode ==
    /\ rpc = "re_encode"
    /\ \E ok \in BOOLEAN :
          /\ rpc' = IF ok THEN "re_write" ELSE "placeholder"
          /\ rdisk' = rdisk
    /\ UNCHANGED rkind
    /\ UNCHANGED <<fanVars, logVars, oneVars, decVars, uzVars, zipVars, jfifVars, pngVars,
                   getVars, sniffVars, auxVars>>

\* f.Write(data), and the deferred f.Close().
ReWrite ==
    /\ rpc = "re_write"
    /\ \E ok \in BOOLEAN :
          /\ rpc' = IF ok THEN "re_rename" ELSE "placeholder"
          /\ rdisk' = IF ok THEN WriteAll(rdisk, tmpPath("orig"))
                    ELSE WriteSome(rdisk, tmpPath("orig"))
    /\ UNCHANGED rkind
    /\ UNCHANGED <<fanVars, logVars, oneVars, decVars, uzVars, zipVars, jfifVars, pngVars,
                   getVars, sniffVars, auxVars>>

\* reencode, line 843: os.Rename(tmpPath, path).
ReRename ==
    /\ rpc = "re_rename"
    /\ \E ok \in BOOLEAN :
          /\ rpc' = IF ok THEN "replaced" ELSE "placeholder"
          /\ rdisk' = IF ok THEN Rename(rdisk, tmpPath("orig"), "orig")
                    ELSE rdisk
    /\ UNCHANGED rkind
    /\ UNCHANGED <<fanVars, logVars, oneVars, decVars, uzVars, zipVars, jfifVars, pngVars,
                   getVars, sniffVars, auxVars>>

\* placeholder, line 1006: os.WriteFile(svgPath, ...).
PlaceholderWrite ==
    /\ rpc = "placeholder"
    /\ \E ok \in BOOLEAN :
          /\ rpc' = "ph_remove"
          /\ rdisk' = IF ok THEN [rdisk EXCEPT !.svg = "placeholder"]
                    ELSE rdisk
    /\ UNCHANGED rkind
    /\ UNCHANGED <<fanVars, logVars, oneVars, decVars, uzVars, zipVars, jfifVars, pngVars,
                   getVars, sniffVars, auxVars>>

\* placeholder, line 1009: os.Remove(path).
PlaceholderRemove ==
    /\ rpc = "ph_remove"
    /\ \E ok \in BOOLEAN :
          /\ rpc' = "substituted"
          /\ rdisk' = IF ok THEN Remove(rdisk, "orig")
                    ELSE rdisk
    /\ UNCHANGED rkind
    /\ UNCHANGED <<fanVars, logVars, oneVars, decVars, uzVars, zipVars, jfifVars, pngVars,
                   getVars, sniffVars, auxVars>>

NextReplace ==
    \/ FastRead \/ FastOpen \/ FastWrite \/ FastRename
    \/ ReplaceDecode \/ ReCreate \/ ReEncode \/ ReWrite \/ ReRename
    \/ PlaceholderWrite \/ PlaceholderRemove

InitReplacement ==
    /\ InitReplace
    /\ IdleFan /\ InitLog /\ IdleOne /\ IdleDec /\ IdleUnzip /\ IdleZip /\ IdleJFIF /\ IdlePNG
    /\ IdleGet /\ IdleSniff /\ IdleAux

SpecReplace == InitReplacement /\ [][NextReplace]_vars

\* ============================================================ sniffFormat
\* The longest file the sniff is checked on.
MaxFileLen == 13

\* Sixteen bytes of each kind of file: JPEG, PNG, both GIFs, WebP, a RIFF
\* file that is no WebP, BMP, both TIFFs, FF D8 not followed by FF, and
\* zeros.
SniffFixtures ==
    { <<255, 216, 255, 224, 0, 16, 74, 70, 73, 70, 0, 1, 1, 1, 0, 72>>,
      <<137>> \o B_PNG \o <<13, 10, 26, 10, 0, 0, 0, 13, 73, 72, 68, 82>>,
      B_GIF87a \o <<1, 0, 1, 0, 128, 0, 0, 0, 0, 0>>,
      B_GIF89a \o <<1, 0, 1, 0, 128, 0, 0, 0, 0, 0>>,
      B_RIFF \o <<26, 0, 0, 0>> \o B_WEBP \o <<86, 80, 56, 32>>,
      B_RIFF \o <<36, 0, 0, 0, 87, 65, 86, 69, 102, 109, 116, 32>>,
      <<66, 77, 70, 0, 0, 0, 0, 0, 0, 0, 54, 0, 0, 0, 40, 0>>,
      <<73, 73, 42, 0, 8, 0, 0, 0, 1, 0, 0, 1, 3, 0, 1, 0>>,
      <<77, 77, 0, 42, 0, 0, 0, 8, 0, 1, 1, 0, 0, 3, 0, 0>>,
      <<255, 216, 0, 0, 0, 0, 0, 0, 0, 0, 0, 0, 0, 0, 0, 0>>,
      <<0, 0, 0, 0, 0, 0, 0, 0, 0, 0, 0, 0, 0, 0, 0, 0>> }

InitSniff ==
    /\ \E fix \in SniffFixtures, n \in 0..MaxFileLen : sfile = Slice(fix, 0, n)
    /\ sext \in {".jpg", ".png", ".gif", ".bin"}
    /\ sopen \in BOOLEAN
    /\ spc = "start"
    /\ sresult = [err |-> "", format |-> ""]

\* realFmt, err := sniffFormat(path)
SniffCall ==
    /\ spc = "start"
    /\ sresult' = sniffFile(sfile, sopen)
    /\ spc' = "done"
    /\ UNCHANGED <<sfile, sext, sopen>>
    /\ UNCHANGED <<fanVars, logVars, oneVars, decVars, uzVars, zipVars, jfifVars, pngVars,
                   replVars, getVars, auxVars>>

InitSniffFormat ==
    /\ InitSniff
    /\ IdleFan /\ InitLog /\ IdleOne /\ IdleDec /\ IdleUnzip /\ IdleZip /\ IdleJFIF /\ IdlePNG
    /\ IdleReplace /\ IdleGet /\ IdleAux

SpecSniff == InitSniffFormat /\ [][SniffCall]_vars

\* ============================================================ GetLogsSince
\* The log calls one run adds.
MaxLogCalls == 5

\* The number of lines logged before the run: none, or two fewer than fill
\* the buffer.
LogStarts == {0, MaxLogLines - 2}

\* The line the k-th log call (counted from 0) appends.
LogLine(k) == Line("line", k)

\* The since arguments: around 0, around the first sequence number left
\* after a trim, and around the next sequence number.
SinceValues ==
    {-1, 0, 1, 3, MaxLogLines \div 5 - 1, MaxLogLines \div 5, MaxLogLines \div 5 + 1,
     MaxLogLines - 1, MaxLogLines, MaxLogLines + 1, MaxLogLines + MaxLogCalls}

\* The App after n log calls, n below MaxLogLines: the buffer holds them all.
InitLogs ==
    /\ \E n \in LogStarts :
          /\ logSeq = n
          /\ logBuffer = [i \in 1..n |-> LogLine(i - 1)]
    /\ gsince = 0
    /\ gresult = NoQuery

\* a.log(msg); the result of an earlier query is dropped from the state.
LogCall ==
    /\ \E n \in LogStarts : n <= logSeq /\ logSeq < n + MaxLogCalls
    /\ Log(LogLine(logSeq))
    /\ gsince' = 0
    /\ gresult' = NoQuery
    /\ UNCHANGED <<fanVars, oneVars, decVars, uzVars, zipVars, jfifVars, pngVars, replVars,
                   sniffVars, auxVars>>

\* a.GetLogsSince(since)
GetLogsSinceCall ==
    /\ \E since \in SinceValues :
          /\ gsince' = since
          /\ gresult' = GetLogsSince(logBuffer, logSeq, since)
    /\ UNCHANGED <<fanVars, logVars, oneVars, decVars, uzVars, zipVars, jfifVars, pngVars,
                   replVars, sniffVars, auxVars>>

NextLog == LogCall \/ GetLogsSinceCall

InitGetLogsSince ==
    /\ InitLogs
    /\ IdleFan /\ IdleOne /\ IdleDec /\ IdleUnzip /\ IdleZip /\ IdleJFIF /\ IdlePNG
    /\ IdleReplace /\ IdleSniff /\ IdleAux

SpecLog == InitGetLogsSince /\ [][NextLog]_vars

\* ============================================================ properties
\* ------------------------------------------------------------ sanitizeAllImages
\* C1: sanitizeAllImages returns its reports in discovery order: reports[i]
\* is the report sanitizeOne gives for the i-th discovered path, whatever
\* order the workers finish in and whatever the size of the pool.
C1_ReportsInDiscoveryOrder ==
    ret.state = "returned" =>
        /\ Len(ret.reports) = Len(imagePaths)
        /\ \A i \in 1..Len(imagePaths) :
              ret.reports[i] = sanitizeOne(imagePaths[i], FreshDisk).report

\* C1 happens: two workers ran, the first discovered file was the last to
\* complete, its report differs from the other file's, and the call returned.
C1_Witness ==
    /\ ret.state = "returned" /\ workers = 2 /\ Len(imagePaths) = 2
    /\ \E w \in WorkerIds : widx[w] = 1 /\ wn[w] = 2
    /\ ret.reports[1].Status # ret.reports[2].Status

\* C2: failures of single files never abort the fan-out: whichever of the
\* discovered files fail sniffing, decoding or re-encoding, every file is
\* processed exactly once and the call returns one report per discovered
\* file, in place, with a nil error.
C2_FailuresContained ==
    ret.state = "returned" =>
        /\ ret.err = "nil"
        /\ Len(ret.reports) = Len(imagePaths)
        /\ processed = Len(imagePaths)
        /\ \A i \in 1..Len(imagePaths) :
              /\ ret.reports[i].FilePath = imagePaths[i].path
              /\ ret.reports[i].Status \in {"OK", "REPAIRED", "REPLACED", "FAILED"}
              /\ writes[i] = 1
              /\ disk[i] # FreshDisk

\* C2 happens: the call returned after a file that failed was followed by a
\* file that was sanitized.
C2_Witness ==
    /\ ret.state = "returned" /\ Len(imagePaths) = 2
    /\ ret.reports[1].Status \in {"FAILED", "REPLACED"}
    /\ ret.reports[2].Status \in {"OK", "REPAIRED"}

\* How many entries of the sequence q equal i.
Occurrences(q, i) == Cardinality({ k \in 1..Len(q) : q[k] = i })

\* The workers that received index i and have not yet written its report.
Holders(i) == { w \in WorkerIds : wpc[w] = "run" /\ widx[w] = i }

\* C20: every slot of the results array is written exactly once and by one
\* worker: from the start of the pool on, each discovered index is in
\* exactly one place (not yet sent, in the channel, held by one worker, or
\* written once), so no index is skipped, none is received twice, no two
\* workers ever hold the same slot, and at the return every slot was written
\* once.
C20_SlotsWrittenOnce ==
    mpc \in {"dispatch", "wait"} \/ ret.state = "returned" =>
        /\ \A i \in 1..Len(imagePaths) :
              /\ (IF i >= nextJob THEN 1 ELSE 0) + Occurrences(jobs, i)
                    + Cardinality(Holders(i)) + writes[i] = 1
              /\ ret.state = "returned" => writes[i] = 1
        /\ \A w \in WorkerIds : wpc[w] = "run" => widx[w] \in 1..Len(imagePaths)

\* C20 happens: two workers hold different indices at the same time.
C20_Witness ==
    \E w1 \in WorkerIds, w2 \in WorkerIds :
        /\ w1 # w2 /\ wpc[w1] = "run" /\ wpc[w2] = "run" /\ widx[w1] # widx[w2]

\* ------------------------------------------------------------ decodeSafe
\* The header's dimensions pass every bound: both sides positive, neither
\* above MaxImageDimension, the pixel count not above MaxPixelCount.
WithinBounds(w, h) ==
    /\ w >= 1 /\ h >= 1
    /\ w <= MaxImageDimension /\ h <= MaxImageDimension
    /\ h <= MaxPixelCount \div w

\* C3: decodeSafe starts the full pixel decode only after the header-only
\* decode has returned dimensions that pass all bounds checks; when the header
\* declares dimensions out of bounds, decodeSafe returns an error and the
\* full decode is never started.
C3_HeaderCheckedBeforeDecode ==
    /\ dfull \/ dpc = "phase2" =>
          dcfg.read /\ ~dcfg.err /\ WithinBounds(dcfg.w, dcfg.h)
    /\ dpc = "returned" /\ dcfg.read /\ ~dcfg.err /\ ~WithinBounds(dcfg.w, dcfg.h) =>
          dresult.err # "" /\ dresult.img = NoImage /\ ~dfull

\* C3 happens: a call on a file whose header declares 60000x60000 returned
\* the dimension error without starting the full decode.
C3_Witness ==
    /\ dpc = "returned" /\ dcfg.read /\ dcfg.w = 60000 /\ dcfg.h = 60000
    /\ dresult.err = "monster image" /\ ~dfull

\* The bounds checks have been passed over: the call is in phase 2 or has
\* returned from it.
PastChecks == dpc = "phase2" \/ dfull

\* The call returned the given error from the bounds checks, before phase 2.
RejectedAs(e) == dpc = "returned" /\ ~dfull /\ dresult.err = e

\* C21: decodeSafe classifies the header's dimensions in this priority: a
\* side <= 0 is the invalid-dimensions error; otherwise a side above 50000 is
\* the monster-image error; otherwise a product above 500,000,000 is the
\* pixel-bomb error; otherwise the header is accepted. Both limits are
\* inclusive and the product is the exact one, not a wrapped one.
C21_DimensionPriority ==
    dcfg.read /\ ~dcfg.err /\ dpc # "check" =>
        LET w == dcfg.w
            h == dcfg.h
        IN IF w <= 0 \/ h <= 0 THEN RejectedAs("invalid dimensions")
           ELSE IF w > 50000 \/ h > 50000 THEN RejectedAs("monster image")
           ELSE IF h > 500000000 \div w THEN RejectedAs("pixel bomb")
           ELSE PastChecks

\* C21 happens: a header of exactly 50000x10000 (a side at the limit, the
\* product at the limit) was accepted and decoded.
C21_Witness ==
    /\ dpc = "returned" /\ dcfg.read /\ dcfg.w = 50000 /\ dcfg.h = 10000
    /\ dfull /\ dresult.err = ""

\* ------------------------------------------------------------ sanitizeOne
\* The file's header can be read and declares dimensions: its first bytes
\* name a format and the header-only decode of that format succeeds.
DeclaresDimensions(f) ==
    /\ sniffFormat(f.head).err = ""
    /\ ~decodeConfig(f, sniffFormat(f.head).format).err

\* C4: every image file, whatever its extension, whose header declares a
\* width or height above MaxImageDimension or more than MaxPixelCount pixels
\* ends sanitizeOne replaced by the placeholder with status REPLACED.
C4_OversizeReplaced ==
    opc = "done" /\ isImageExt(file.path.ext) /\ DeclaresDimensions(file)
      /\ file.w >= 1 /\ file.h >= 1 /\ ~WithinBounds(file.w, file.h) =>
        /\ oreport.Status = "REPLACED"
        /\ odisk.orig = "removed" /\ odisk.svg

\* The action lists of a file that needed nothing but the metadata patch.
BaselineFast == <<Act("FAST_DPI", <<>>, <<TargetDPI>>)>>

BaselineReencode == <<Act("FORCE_DPI", <<>>, <<TargetDPI>>), Tag("CLEAN_BINARY")>>

HasAction(report, act) == \E k \in 1..Len(report.Actions) : report.Actions[k] = act

\* The report is of a finished re-encode: its last two tags are the baseline.
IsReencoded(report) ==
    /\ Len(report.Actions) >= 2
    /\ SubSeq(report.Actions, Len(report.Actions) - 1, Len(report.Actions)) = BaselineReencode

\* C14: the status of a report of sanitizeOne is OK if and only if its
\* actions are exactly [FAST_96DPI] or exactly [FORCE_96DPI, CLEAN_BINARY];
\* a re-encoded file with any further action has status REPAIRED.
C14_OKIffBaselineOnly ==
    opc = "done" =>
        /\ oreport.Status = "OK" <=> oreport.Actions \in {BaselineFast, BaselineReencode}
        /\ IsReencoded(oreport) /\ Len(oreport.Actions) > 2 => oreport.Status = "REPAIRED"

\* C14 happens: a re-encode with exactly one corrective action came back
\* REPAIRED.
C14_Witness ==
    /\ opc = "done" /\ IsReencoded(oreport) /\ Len(oreport.Actions) = 3
    /\ oreport.Status = "REPAIRED"

\* C15: the status of a report of sanitizeOne is REPLACED or FAILED if and
\* only if the original file is gone from its path and the .svg placeholder
\* of the same base name exists; with OK or REPAIRED the original path still
\* exists and no placeholder was written.
C15_ReplacedIffPlaceholder ==
    opc = "done" =>
        /\ oreport.Status \in {"REPLACED", "FAILED"}
              <=> (odisk.orig = "removed" /\ odisk.svg)
        /\ oreport.Status \in {"OK", "REPAIRED"} => odisk.orig # "removed" /\ ~odisk.svg

\* The tag the claim gives each EXIF state of a file.
ExpectedExifTag(f) ==
    IF f.exif.st # "ok" THEN "EXIF_STRIPPED"
    ELSE CASE f.exif.orient = 2 -> "EXIF_FLIP_H"
           [] f.exif.orient = 3 -> "EXIF_ROT_180"
           [] f.exif.orient = 4 -> "EXIF_FLIP_V"
           [] f.exif.orient = 5 -> "EXIF_TRANSPOSE"
           [] f.exif.orient = 6 -> "EXIF_ROT_270"
           [] f.exif.orient = 7 -> "EXIF_TRANSVERSE"
           [] f.exif.orient = 8 -> "EXIF_ROT_90"
           [] OTHER -> "EXIF_STRIPPED"

\* C16: whenever sanitizeOne ran exifRotate, the report records
\* EXIF_STRIPPED for orientation 1 and for absent or unreadable EXIF data or
\* orientation tag, and the orientation's own tag for orientations 2 to 8.
C16_ExifTagRecorded ==
    opc = "done" /\ (IsReencoded(oreport) \/ HasAction(oreport, Tag("REENCODE_FAILED"))) =>
        HasAction(oreport, Tag(ExpectedExifTag(file)))

\* ------------------------------------------------------------ unzipStreaming
\* The cleaned path p lies strictly below the cleaned root: its components
\* begin with the root's and none of them climbs.
IsBelow(p, root) ==
    /\ Len(Split(Clean(p))) > Len(Split(Clean(root)))
    /\ SubSeq(Split(Clean(p)), 1, Len(Split(Clean(root)))) = Split(Clean(root))
    /\ \A k \in 1..Len(Split(Clean(p))) : Split(Clean(p))[k] # DotDot

\* p is the root or a directory above it.
IsRootOrAbove(p, root) ==
    /\ Len(Split(Clean(p))) <= Len(Split(Clean(root)))
    /\ SubSeq(Split(Clean(root)), 1, Len(Split(Clean(p)))) = Split(Clean(p))

\* Where the k-th entry of the archive would land.
EntryTarget(k) == Clean(dest \o <<"/">> \o archive[k].name)

\* The entries the loop is through with.
EntriesDone == 1..(uzi - 1)

\* C5: unzipStreaming never creates a file or directory whose cleaned path is
\* outside the destination root, whatever the entry names; an entry rejected
\* for leaving the root is logged and skipped, it is never the cause of the
\* returned error, and every file entry inside the root that the loop is
\* through with (entries after a rejected one included) is extracted.
C5_ZipSlipContained ==
    /\ \A p \in DOMAIN uzfs :
          \/ IsBelow(p, dest)
          \/ uzfs[p] = "dir" /\ IsRootOrAbove(p, dest)
    /\ uzret = "extract error" => IsBelow(EntryTarget(uzi), dest)
    /\ uzret = "nil" => uzi = Len(archive) + 1
    /\ \A k \in EntriesDone :
          IsBelow(EntryTarget(k), dest) /\ ~EntryIsDir(archive[k].name)
            => FsIsFile(uzfs, EntryTarget(k))
    /\ Len(logBuffer) = Cardinality({k \in EntriesDone : ~IsBelow(EntryTarget(k), dest)})

\* C5 happens: the call returned nil after skipping an entry that leaves the
\* root and extracting a file entry that comes after it.
C5_Witness ==
    /\ upc = "returned" /\ uzret = "nil"
    /\ \E j, k \in 1..Len(archive) :
          /\ j < k
          /\ ~IsBelow(EntryTarget(j), dest)
          /\ IsBelow(EntryTarget(k), dest) /\ ~EntryIsDir(archive[k].name)
          /\ FsIsFile(uzfs, EntryTarget(k))

\* ------------------------------------------------------------ zipEPUBStrict
\* The positions of the archive's entries named name.
EntriesNamed(name) == { k \in 1..Len(zentries) : zentries[k].name = name }

\* C6: for every source tree the first entry written to the archive is named
\* mimetype, is stored uncompressed and is the only entry of that name; it is
\* written unconditionally, so an archive that was written without error has
\* it.
C6_MimetypeFirst ==
    /\ zentries # <<>> =>
          /\ zentries[1].name = <<"mimetype">>
          /\ zentries[1].method = "Store"
          /\ EntriesNamed(<<"mimetype">>) = {1}
    /\ zpc = "returned" /\ zret = "nil" => zentries # <<>>

\* The forward-slash relative path of a tree entry, whatever the host's
\* separator: its components joined by "/".
SlashPath(rel) == JoinWith(rel, "/")

\* The regular files of the tree other than the root mimetype file.
OtherFiles ==
    { k \in 1..Len(srcTree) : srcTree[k].kind = "file" /\ srcTree[k].rel # <<"mimetype">> }

\* C7: once zipEPUBStrict has returned nil, every regular file of the tree
\* other than the root mimetype file (files named mimetype in subdirectories
\* included) is in the archive exactly once, as a Deflate entry named by its
\* forward-slash relative path and holding the file's bytes.
C7_EveryOtherFileDeflated ==
    zpc = "returned" /\ zret = "nil" =>
        \A k \in OtherFiles :
            /\ Cardinality(EntriesNamed(SlashPath(srcTree[k].rel))) = 1
            /\ \A j \in EntriesNamed(SlashPath(srcTree[k].rel)) :
                  zentries[j].method = "Deflate" /\ zentries[j].data = srcTree[k].data

\* ------------------------------------------------------------ injectJFIFDPI
\* A JFIF APP0 segment stands at offset i of data: FF E0, the identifier
\* JFIF\0 at offset +4, and all eighteen bytes of the segment.
SegmentAt(data, i) ==
    /\ i + 18 <= Len(data)
    /\ Slice(data, i, i + 2) = <<255, 224>>
    /\ Slice(data, i + 4, i + 9) = B_JFIF0

\* The offsets, after the two bytes of the SOI marker, at which one stands.
SegmentOffsets(data) == { i \in 2..(Len(data) - 18) : SegmentAt(data, i) }

\* dpi as a big-endian 16-bit field.
BigEndian16(dpi) == <<dpi \div 256, dpi % 256>>

\* C8: when the input holds a JFIF APP0 segment, injectJFIFDPI returns
\* bytes of the same length in which the units byte of the first such segment
\* is 1, its X and Y density fields are dpi in big-endian, and every other
\* byte is the input's.
C8_ExistingJFIFPatchedInPlace ==
    jpc = "done" =>
        \A i \in SegmentOffsets(jdata) :
            (\A j \in SegmentOffsets(jdata) : i <= j) =>
                /\ Len(jout) = Len(jdata)
                /\ At(jout, i + 11) = 1
                /\ Slice(jout, i + 12, i + 14) = BigEndian16(jdpi)
                /\ Slice(jout, i + 14, i + 16) = BigEndian16(jdpi)
                /\ \A k \in 0..(Len(jdata) - 1) :
                      k \notin (i + 11)..(i + 15) => At(jout, k) = At(jdata, k)

\* C8 happens: a call on an input holding a segment returned, and the patch
\* changed the segment's fields to a density whose high byte is not zero.
C8_Witness ==
    /\ jpc = "done" /\ SegmentOffsets(jdata) # {}
    /\ jdpi = 300 /\ jout # jdata /\ Len(jout) = Len(jdata)

\* FF E0 is followed by JFIF\0 at offset +4 somewhere in data, whether or
\* not the rest of a segment follows.
HasJFIFMarker(data) ==
    \E i \in 0..(Len(data) - 9) :
        Slice(data, i, i + 2) = <<255, 224>> /\ Slice(data, i + 4, i + 9) = B_JFIF0

BeginsWithSOI(data) == Len(data) >= 2 /\ Slice(data, 0, 2) = <<255, 216>>

\* The segment the claim spells out: FF E0, length 16, JFIF\0, version 1.1,
\* units 1, X density, Y density, thumbnail 0x0.
ExpectedAPP0(dpi) ==
    <<255, 224, 0, 16, 74, 70, 73, 70, 0, 1, 1, 1>>
      \o BigEndian16(dpi) \o BigEndian16(dpi) \o <<0, 0>>

\* C9 as stated: for every input beginning with FF D8 that holds no JFIF
\* APP0 segment, the output is input[0:2], the 18-byte APP0 segment, then
\* input[2:].
C9_NoJFIFInserted_AnyLength ==
    jpc = "done" /\ BeginsWithSOI(jdata) /\ ~HasJFIFMarker(jdata) =>
        jout = Slice(jdata, 0, 2) \o ExpectedAPP0(jdpi) \o Slice(jdata, 2, Len(jdata))

\* C9 as amended: for every input of at least 20 bytes beginning with FF D8
\* in which FF E0 is nowhere followed by JFIF\0 at offset +4, the output is
\* input[0:2], the 18-byte APP0 segment, then input[2:]; it is 18 bytes longer
\* and still begins with FF D8.
C9_NoJFIFInserted ==
    jpc = "done" /\ Len(jdata) >= 20 /\ BeginsWithSOI(jdata) /\ ~HasJFIFMarker(jdata) =>
        /\ jout = Slice(jdata, 0, 2) \o ExpectedAPP0(jdpi) \o Slice(jdata, 2, Len(jdata))
        /\ Len(jout) = Len(jdata) + 18
        /\ BeginsWithSOI(jout)

\* C9 happens: a call on such an input returned an output 18 bytes longer.
C9_Witness ==
    /\ jpc = "done" /\ Len(jdata) >= 20 /\ BeginsWithSOI(jdata) /\ ~HasJFIFMarker(jdata)
    /\ jdpi = 300 /\ Len(jout) = Len(jdata) + 18

\* ------------------------------------------------------------ injectPNGpHYs
\* The chunks of data tile it exactly from offset off to its end.
RECURSIVE Tiles(_, _)
Tiles(data, off) ==
    \/ off = Len(data)
    \/ /\ off + 12 <= Len(data)
       /\ ChunkLenAt(data, off) >= 0
       /\ off + 12 + ChunkLenAt(data, off) <= Len(data)
       /\ Tiles(data, off + 12 + ChunkLenAt(data, off))

\* The types of the chunks of a tiled stream, in order.
RECURSIVE ChunkTypes(_, _)
ChunkTypes(data, off) ==
    IF off + 12 > Len(data) THEN <<>>
    ELSE <<ChunkTypeAt(data, off)>> \o ChunkTypes(data, off + 12 + ChunkLenAt(data, off))

CountType(data, type) ==
    Cardinality({ k \in 1..Len(ChunkTypes(data, 8)) : ChunkTypes(data, 8)[k] = type })

\* A PNG byte stream: the signature, then chunks that tile the rest, the
\* first of them the 13-byte IHDR and no other chunk an IHDR.
IsPNGStream(data) ==
    /\ Len(data) >= 33 /\ Slice(data, 0, 8) = PNGSignature
    /\ Tiles(data, 8)
    /\ ChunkTypeAt(data, 8) = B_IHDR /\ ChunkLenAt(data, 8) = 13
    /\ CountType(data, B_IHDR) = 1

\* The end of the IHDR chunk of a PNG stream.
IHDREnd == 8 + 12 + 13

\* C10: on a PNG byte stream with no pHYs chunk, injectPNGpHYs returns
\* input[:ihdrEnd], one 21-byte pHYs chunk (length 9, type pHYs, nine data
\* bytes, the CRC over type and data), then input[ihdrEnd:]; the output is
\* again a stream of chunks and exactly one of them is a pHYs chunk.
C10_PhysInsertedAfterIHDR ==
    ppc = "done" /\ IsPNGStream(pdata) /\ CountType(pdata, B_pHYs) = 0 =>
        /\ Len(pout) = Len(pdata) + 21
        /\ Slice(pout, 0, IHDREnd) = Slice(pdata, 0, IHDREnd)
        /\ Slice(pout, IHDREnd + 21, Len(pout)) = Slice(pdata, IHDREnd, Len(pdata))
        /\ Slice(pout, IHDREnd, IHDREnd + 4) = <<0, 0, 0, 9>>
        /\ Slice(pout, IHDREnd + 4, IHDREnd + 8) = B_pHYs
        /\ Slice(pout, IHDREnd + 17, IHDREnd + 21)
             = crc32PNG(Slice(pout, IHDREnd + 4, IHDREnd + 17))
        /\ Tiles(pout, 8)
        /\ CountType(pout, B_pHYs) = 1
        /\ ChunkTypes(pout, 8)[2] = B_pHYs

\* C10 happens: a call returned on a PNG stream that has no pHYs chunk but
\* holds the bytes of one inside its IDAT data, and the output is 21 bytes
\* longer.
C10_Witness ==
    /\ ppc = "done" /\ IsPNGStream(pdata) /\ CountType(pdata, B_pHYs) = 0
    /\ IndexFrom(pdata, B_pHYs, 0) >= 0
    /\ Len(pout) = Len(pdata) + 21

\* ------------------------------------------------------------ tryFastPath
\* The bytes of a file tryFastPath patches: sniffed as jpeg and at least 20
\* bytes long (its extension and EXIF orientation are not in the bytes).
FastPathEligible(data) ==
    /\ Len(data) >= 20
    /\ sniffFormat(Slice(data, 0, 12)).format = "jpeg"

\* The segment following SOI is a JFIF APP0 segment with units 1 and X and Y
\* density dpi.
LeadingAPP0Carries(data, dpi) ==
    /\ Len(data) >= 20
    /\ Slice(data, 2, 4) = <<255, 224>> /\ Slice(data, 6, 11) = B_JFIF0
    /\ At(data, 13) = 1
    /\ Slice(data, 14, 16) = BigEndian16(dpi) /\ Slice(data, 16, 18) = BigEndian16(dpi)

\* C13: the bytes the fast path writes for an eligible JPEG carry, in the
\* APP0 segment following SOI, units 1 and X and Y density TargetDPI, as the
\* file the full pipeline writes does.
C13_FastPathDPIFields ==
    jpc = "done" /\ jdpi = TargetDPI /\ FastPathEligible(jdata) =>
        LeadingAPP0Carries(jout, TargetDPI)

\* ------------------------------------------------------------ injectPNGpHYs
\* pixels per metre as the nearest integer to dpi / 0.0254.
RoundedPPM(dpi) == (dpi * 10000 + 127) \div 254

\* The offset of the first 9-byte pHYs chunk of a tiled stream, or -1.
RECURSIVE PhysOffset(_, _)
PhysOffset(data, off) ==
    IF off + 12 > Len(data) THEN -1
    ELSE IF ChunkTypeAt(data, off) = B_pHYs /\ ChunkLenAt(data, off) = 9 THEN off
    ELSE PhysOffset(data, off + 12 + ChunkLenAt(data, off))

\* C11: the pHYs chunk injectPNGpHYs leaves in a PNG stream carries
\* round(dpi / 0.0254) in both its X and its Y field, 3780 for 96 dpi.
C11_PhysCarriesRoundedPPM ==
    ppc = "done" /\ IsPNGStream(pdata) =>
        /\ PhysOffset(pout, 8) >= 0
        /\ Slice(pout, PhysOffset(pout, 8) + 8, PhysOffset(pout, 8) + 12)
             = U32(RoundedPPM(pdpi))
        /\ Slice(pout, PhysOffset(pout, 8) + 12, PhysOffset(pout, 8) + 16)
             = U32(RoundedPPM(pdpi))
        /\ (pdpi = TargetDPI => RoundedPPM(pdpi) = 3780)

\* C12: injectPNGpHYs is idempotent: called on its own output with the same
\* dpi it returns that output byte for byte, for every input.
C12_InjectIdempotent == ppc = "again" => pagain = pout

\* C12 happens: the first call inserted a chunk into a PNG stream and the
\* second call returned.
C12_Witness ==
    /\ ppc = "again" /\ IsPNGStream(pdata) /\ Len(pout) = Len(pdata) + 21
    /\ pagain = pout

\* ------------------------------------------------------------ replacement
\* C17: at every point of a file's replacement, by the fast path or by the
\* re-encode, the original path holds the complete original bytes or the
\* complete new bytes, never an empty or partly written file: the new bytes
\* reach it only by the rename of a fully written temp file. (The path is
\* empty of any file only after the placeholder removed the original.)
C17_ReplacementAtomic ==
    rpc # "idle" =>
        /\ rdisk.orig \notin {"empty", "partial"}
        /\ rpc \notin {"substituted"} => rdisk.orig \in {"original", "new"}
        /\ rdisk.orig = "new" <=> rpc = "replaced"

\* C17 happens: the fast path's rename put the fully written temp file at
\* the original path.
C17_Witness ==
    /\ rkind = "fast" /\ rpc = "replaced" /\ rdisk.orig = "new" /\ rdisk.tmp = "absent"

\* ------------------------------------------------------------ sniffFormat
\* The format the magic table gives the bytes of a file, "" when no rule
\* matches or fewer than two bytes are there.
TableFormat(b) ==
    IF Len(b) < 2 THEN ""
    ELSE IF HasPrefix(b, <<255, 216, 255>>) THEN "jpeg"
    ELSE IF HasPrefix(b, <<137, 80, 78, 71>>) THEN "png"
    ELSE IF HasPrefix(b, <<71, 73, 70, 56, 55, 97>>) \/ HasPrefix(b, <<71, 73, 70, 56, 57, 97>>)
        THEN "gif"
    ELSE IF HasPrefix(b, <<82, 73, 70, 70>>) /\ Len(b) >= 12
            /\ SubSeq(b, 9, 12) = <<87, 69, 66, 80>> THEN "webp"
    ELSE IF HasPrefix(b, <<66, 77>>) THEN "bmp"
    ELSE IF HasPrefix(b, <<73, 73, 42, 0>>) \/ HasPrefix(b, <<77, 77, 0, 42>>) THEN "tiff"
    ELSE ""

\* C18: for every file that can be opened, sniffFormat returns the format
\* the magic table gives its first bytes, whatever the extension, and the
\* unknown-format error exactly when no rule matches or fewer than two bytes
\* are readable.
C18_SniffByMagicTable ==
    spc = "done" /\ sopen =>
        /\ sresult.format = TableFormat(sfile)
        /\ sresult.err # "" <=> TableFormat(sfile) = ""

\* ------------------------------------------------------------ GetLogsSince
\* The lines with sequence numbers from (clamped at 0) up to below.
LinesFromTo(from, below) ==
    [i \in 1..(below - (IF from < 0 THEN 0 ELSE from)) |->
        LogLine((IF from < 0 THEN 0 ELSE from) + i - 1)]

EligibleByNameMagicExif(f) ==
    /\ f.path.ext \in {".jpg", ".JPG", ".jpeg", ".JPEG"}
    /\ Len(f.head) >= 3 /\ SubSeq(f.head, 1, 3) = <<255, 216, 255>>
    /\ f.exif.st # "ok" \/ f.exif.orient <= 1

\* The call returned the report of the fast path and patched the bytes
\* without decoding or re-encoding them.
TookFastPath ==
    /\ oreport.Status = "OK" /\ oreport.OriginalFormat = "jpeg"
    /\ oreport.Actions = BaselineFast
    /\ ~ofull /\ odisk.orig = "patched"

\* The call went through the full pipeline: its report ends with the tag of
\* one of the pipeline's four exits.
RanFullPipeline ==
    /\ Len(oreport.Actions) >= 1
    /\ oreport.Actions[Len(oreport.Actions)]
          \in {Tag("INVALID_REPLACED"), Tag("DECODE_FAIL_REPLACED"),
               Tag("REENCODE_FAILED"), Tag("CLEAN_BINARY")}
    /\ odisk.orig # "patched"

\* C22 as stated: sanitizeOne takes the fast path exactly when the extension
\* is .jpg or .jpeg, the sniffed format is jpeg and the EXIF orientation is
\* <= 1 or unreadable; the fast path neither decodes nor re-encodes and
\* reports OK, jpeg, [FAST_96DPI]; every other case runs the full pipeline.
C22_FastPathExactlyWhenEligible ==
    opc = "done" =>
        /\ TookFastPath <=> EligibleByNameMagicExif(file)
        /\ ~EligibleByNameMagicExif(file) => RanFullPipeline

\* C22 amended: the fast path is taken exactly when, besides the three
\* conditions, the file is read and holds at least 20 bytes and the write
\* and the rename of the temp file succeed; the fast path neither decodes
\* nor re-encodes and reports OK, jpeg, [FAST_96DPI]; every other case runs
\* the full pipeline.
C22_FastPathWhenEligibleAndWritable ==
    opc = "done" =>
        /\ TookFastPath <=> /\ EligibleByNameMagicExif(file)
                            /\ file.size >= 20 /\ file.fp = "none"
        /\ ~TookFastPath => RanFullPipeline

\* C22 happens: a .JPEG file with a readable orientation of 1 took the fast
\* path.
C22_Witness ==
    /\ opc = "done" /\ TookFastPath /\ file.path.ext = ".JPEG"
    /\ file.exif.st = "ok" /\ file.exif.orient = 1
\* ------------------------------------------------------------ failures
\* The file's first bytes match no magic number.
SniffFails(f) == f.head \in {HeadUnknown, HeadOneByte}

\* The decode of a sniffed file fails: no decoder for the format, an
\* unreadable header, dimensions out of bounds, or a failing pixel decode.
DecodeFails(f) ==
    \/ f.head = HeadWEBP
    \/ f.cfgErr
    \/ ~WithinBounds(f.w, f.h)
    \/ f.decErr

LastAction(report) == report.Actions[Len(report.Actions)]

\* The report is of the given failure: the status, the tag as the last
\* action, a non-empty error.
FailedAs(report, status, tag) ==
    /\ report.Status = status
    /\ Len(report.Actions) >= 1 /\ LastAction(report) = Tag(tag)
    /\ report.Error # ""

\* C23: a sniff failure gives status FAILED with action INVALID_REPLACED; a
\* decode failure (dimension and pixel-bomb rejections included) gives
\* status REPLACED with action DECODE_FAIL_REPLACED; a re-encode failure
\* gives status FAILED with action REENCODE_FAILED; in each case the error
\* field is non-empty and the failure tag is the last action.
C23_FailureStatusAndTag ==
    opc = "done" /\ ~TookFastPath =>
        IF SniffFails(file) THEN FailedAs(oreport, "FAILED", "INVALID_REPLACED")
        ELSE IF DecodeFails(file) THEN FailedAs(oreport, "REPLACED", "DECODE_FAIL_REPLACED")
        ELSE IF file.re # "none" THEN FailedAs(oreport, "FAILED", "REENCODE_FAILED")
        ELSE oreport.Status \in {"OK", "REPAIRED"} /\ oreport.Error = ""

\* C23 happens: a re-encode failed after a corrective action had been
\* recorded, and the failure tag came last.
C23_Witness ==
    /\ opc = "done" /\ file.re = "rename" /\ oreport.Status = "FAILED"
    /\ Len(oreport.Actions) >= 2 /\ LastAction(oreport) = Tag("REENCODE_FAILED")
\* ------------------------------------------------------------ chunk walk
\* Outside the bytes lo..hi-1 (0-based) the two strings agree byte for byte.
SameOutside(a, b, lo, hi) ==
    /\ Len(a) = Len(b)
    /\ \A i \in 0..(Len(a) - 1) : i < lo \/ i >= hi => At(a, i) = At(b, i)

\* C24: injectPNGpHYs finds chunks only by walking length fields from offset
\* 8. When the bytes pHYs stand inside the data of another chunk and the
\* stream has no pHYs chunk, every chunk is returned unmodified and a new
\* pHYs chunk stands right after IHDR; when the stream has a 9-byte pHYs
\* chunk, only that chunk's 9 data bytes and 4 CRC bytes may differ and the
\* length of the stream is unchanged.
C24_ChunksFoundByWalk ==
    ppc = "done" /\ IsPNGStream(pdata) =>
        /\ CountType(pdata, B_pHYs) = 0 /\ IndexFrom(pdata, B_pHYs, 0) >= 0 =>
              /\ Slice(pout, 0, IHDREnd) = Slice(pdata, 0, IHDREnd)
              /\ Slice(pout, IHDREnd + 4, IHDREnd + 8) = B_pHYs
              /\ Slice(pout, IHDREnd + 21, Len(pout)) = Slice(pdata, IHDREnd, Len(pdata))
        /\ PhysOffset(pdata, 8) >= 0 =>
              SameOutside(pout, pdata, PhysOffset(pdata, 8) + 8, PhysOffset(pdata, 8) + 21)

\* C24 happens: the stream holds the bytes pHYs inside an IDAT chunk that
\* comes before its pHYs chunk, and the call rewrote the pHYs chunk.
C24_Witness ==
    /\ ppc = "done" /\ IsPNGStream(pdata) /\ PhysOffset(pdata, 8) >= 0
    /\ IndexFrom(pdata, B_pHYs, 0) >= 0
    /\ IndexFrom(pdata, B_pHYs, 0) < PhysOffset(pdata, 8)
    /\ pout # pdata
\* ------------------------------------------------------------ crc32PNG
\* CRC-32/ISO-HDLC bit by bit: the register starts at FFFFFFFF; each byte is
\* xored into its low byte and the register is shifted right eight times,
\* the reflected polynomial EDB88320 xored in whenever a one is shifted out;
\* the result is the register xored with FFFFFFFF.
RECURSIVE StdCRCBits(_, _)
StdCRCBits(c, j) ==
    IF j = 0 THEN c
    ELSE CHOOSE r \in { StdCRCBits(x, j - 1)
                          : x \in {IF c[4] % 2 = 1
                                   THEN Xor32(<<237, 184, 131, 32>>, Shr1(c))
                                   ELSE Shr1(c)} } : TRUE

RECURSIVE StdCRCFold(_, _, _)
StdCRCFold(c, data, k) ==
    IF k > Len(data) THEN c
    ELSE CHOOSE r \in { StdCRCFold(x, data, k + 1)
                          : x \in {StdCRCBits(<<c[1], c[2], c[3], Xor8(c[4], data[k])>>, 8)} }
                : TRUE

StdCRC32(data) == Xor32(StdCRCFold(<<255, 255, 255, 255>>, data, 1), <<255, 255, 255, 255>>)

\* C25: crc32PNG returns the standard CRC-32 of its input (CBF43926 for the
\* digits 1 to 9, 0 for the empty string, AE426082 for IEND), and after
\* injectPNGpHYs, on the overwrite and on the insert branch, the CRC field
\* of the pHYs chunk is the CRC-32 of the chunk's type and data bytes.
C25_StandardCRC32 ==
    /\ cpc = "done" =>
          /\ cout = StdCRC32(cdata)
          /\ cdata = Digits1To9 => cout = <<203, 244, 57, 38>>
          /\ cdata = <<>> => cout = <<0, 0, 0, 0>>
          /\ cdata = B_IEND => cout = <<174, 66, 96, 130>>
    /\ ppc = "done" /\ IsPNGStream(pdata) =>
          /\ PhysOffset(pout, 8) >= 0
          /\ Slice(pout, PhysOffset(pout, 8) + 17, PhysOffset(pout, 8) + 21)
               = StdCRC32(Slice(pout, PhysOffset(pout, 8) + 4, PhysOffset(pout, 8) + 17))

\* C25 happens: crc32PNG returned the check value of the digits 1 to 9 and
\* injectPNGpHYs overwrote the pHYs chunk of a stream with other values.
C25_Witness ==
    /\ cpc = "done" /\ cdata = Digits1To9 /\ cout = <<203, 244, 57, 38>>
    /\ ppc = "done" /\ PhysOffset(pdata, 8) >= 0
    /\ Len(pout) = Len(pdata) /\ pout # pdata
\* ------------------------------------------------------------ progress
\* The completion counts of the progress lines in the log, in log order.
RECURSIVE ProgressCounts(_)
ProgressCounts(buf) ==
    IF buf = <<>> THEN <<>>
    ELSE (IF Head(buf).msg = "progress" THEN <<Head(buf).n>> ELSE <<>>)
           \o ProgressCounts(Tail(buf))

\* The completion counts that are to be reported for a batch of total files.
DueCounts(total) == { n \in 1..total : n % 50 = 0 \/ n = total }

\* C26: during sanitizeAllImages the progress lines are appended to the log
\* with strictly increasing completion counts under any interleaving of the
\* workers, and when the call has returned there is exactly one line for
\* every multiple of 50 and one for the total.
C26_ProgressIncreasing ==
    LET p == ProgressCounts(logBuffer) IN
    /\ \A i, j \in 1..Len(p) : i < j => p[i] < p[j]
    /\ mpc = "returned" /\ Len(imagePaths) > 0 =>
          /\ { p[i] : i \in 1..Len(p) } = DueCounts(Len(imagePaths))
          /\ Len(p) = Cardinality(DueCounts(Len(imagePaths)))

\* Every due count is logged exactly once before the call returns, in
\* whatever order.
C26_EveryDueCountOnce ==
    LET p == ProgressCounts(logBuffer) IN
    /\ \A i, j \in 1..Len(p) : i # j => p[i] # p[j]
    /\ \A i \in 1..Len(p) : p[i] \in DueCounts(Len(imagePaths))
    /\ mpc = "returned" /\ Len(imagePaths) > 0 =>
          { p[i] : i \in 1..Len(p) } = DueCounts(Len(imagePaths))
\* ------------------------------------------------------------ termination
\* The call has returned with everything wound up: every index was sent,
\* the queue is closed and drained, and no worker is left running.
AllWoundUp ==
    /\ mpc = "returned"
    /\ Len(imagePaths) > 0 =>
          /\ nextJob = Len(imagePaths) + 1 /\ jobsClosed /\ jobs = <<>>
          /\ \A w \in WorkerIds : wpc[w] \in {"unborn", "exited"}
          /\ \A w \in 1..workers : wpc[w] = "exited"
    /\ Len(imagePaths) = 0 =>
          /\ workers = 0
          /\ \A w \in WorkerIds : wpc[w] = "unborn"

\* C27: sanitizeAllImages always terminates without deadlock: for every
\* number of discovered files and every worker count, each call of
\* sanitizeOne returning, the dispatcher eventually enqueues every index and
\* closes the queue, every worker exits and the call returns; with no file
\* discovered it returns at once without starting a worker.
C27_AlwaysTerminates ==
    /\ <>AllWoundUp
    /\ [](mpc = "returned" /\ Len(imagePaths) = 0 => workers = 0 /\ processed = 0)

\* C27 happens: a call over more files than the queue of its one worker
\* holds has returned.
C27_Witness ==
    /\ AllWoundUp /\ workers = 1 /\ Len(imagePaths) = 3
    /\ \A i \in 1..3 : writes[i] = 1
\* ------------------------------------------------------------ ConvertBook
\* The callers whose call is past the isProcessing guard and has not returned.
Inside == { c \in Callers : cbpc[c] \in InsideStages }

\* Caller c makes a call in this step.
Arrives(c) == cbcalls'[c] = cbcalls[c] + 1

\* C28: ConvertBook is mutually exclusive. Under any interleaving at most
\* one call is past the isProcessing guard; the flag is set exactly while a
\* call is past it, so it is false again after the admitted call returned by
\* success or by any failure; a call that arrives while another runs returns
\* an error result with an empty JobID and leaves the flag set, and a call
\* that arrives while none runs is admitted.
C28_ConvertMutuallyExclusive ==
    /\ [](Cardinality(Inside) <= 1 /\ (isProcessing <=> Inside # {}))
    /\ [][\A c \in Callers :
            Arrives(c) =>
              IF Inside # {}
              THEN /\ cbres'[c].IsError /\ cbres'[c].JobID = ""
                   /\ cbpc'[c] = "returned" /\ isProcessing'
              ELSE cbpc'[c] = "validate" /\ cbres'[c].JobID # ""]_vars

\* C28 happens: a caller was turned away with an empty JobID while the
\* other caller's second call, admitted after its first call had failed, is
\* running.
C28_Witness ==
    \E c, d \in Callers :
        /\ c # d /\ cbpc[c] \in InsideStages /\ cbcalls[c] = 2
        /\ cbpc[d] = "returned" /\ cbres[d].IsError /\ cbres[d].JobID = ""
        /\ isProcessing
\* ------------------------------------------------------------ runLaTeX
\* The watchdog cancelled pass p for a stall: its line is in the log.
StalledIn(p) == \E k \in 1..Len(logBuffer) : logBuffer[k] = Line("latex_stall", p)

\* C29: when the watchdog cancels a compilation pass because the process put
\* out nothing for longer than stallTimeout, runLaTeX returns a non-nil
\* error for that pass: it neither goes on to the next pass nor returns
\* success.
C29_StallReturnsError ==
    \A p \in 1..MaxPasses :
        StalledIn(p) => /\ lpass = p
                        /\ lret # "nil"
                        /\ lpc = "returned" => lret = "error"
\* ------------------------------------------------------------ temp file
\* C30: when sanitizeOne returns for a path, whatever the status and
\* whichever write, encode or rename step failed on the way, no sibling temp
\* file <path>.athanor_tmp remains on disk.
C30_NoTempFileLeft == opc = "done" => odisk.tmp = "none"
====
